---- MODULE Spec2Model ----
(***************************************************************************)
(* Verification model of the poly_analysis batch pipeline:                 *)
(*   per_market_summary rows + closed positions                            *)
(*     -> analyze_market_structure -> analyze_completeness                 *)
(*     -> analyze_sizing -> analyze_pnl                                    *)
(* Money and share quantities are exact rationals (IEEE rounding of the    *)
(* float columns is not modelled); NaN is an explicit value.               *)
(***************************************************************************)
EXTENDS Integers, Sequences, FiniteSets, TLC

(***************************************************************************)
(* Exact rational arithmetic with NaN (numpy float semantics without       *)
(* rounding): a number is [nan, n, d] with d >= 1 and gcd(|n|, d) = 1.      *)
(***************************************************************************)
AbsInt(x) == IF x < 0 THEN -x ELSE x

RECURSIVE Gcd(_, _)
Gcd(a, b) == IF b = 0 THEN a ELSE Gcd(b, a % b)

NaN == [nan |-> TRUE, n |-> 0, d |-> 1]

Rat(n, d) ==
  IF d = 0 THEN NaN
  ELSE LET s == IF d < 0 THEN -1 ELSE 1
           g == Gcd(AbsInt(n), AbsInt(d))
       IN [nan |-> FALSE, n |-> (s * n) \div g, d |-> (s * d) \div g]

Num(i) == [nan |-> FALSE, n |-> i, d |-> 1]

IsNaN(x) == x.nan

Add(x, y) == IF x.nan \/ y.nan THEN NaN ELSE Rat(x.n * y.d + y.n * x.d, x.d * y.d)
Sub(x, y) == IF x.nan \/ y.nan THEN NaN ELSE Rat(x.n * y.d - y.n * x.d, x.d * y.d)
Mul(x, y) == IF x.nan \/ y.nan THEN NaN ELSE Rat(x.n * y.n, x.d * y.d)
\* float division; 0/0 and x/0 are only ever evaluated under a guard in the
\* modelled code, so the quotient by zero is reported as NaN.
Div(x, y) == IF x.nan \/ y.nan \/ y.n = 0 THEN NaN ELSE Rat(x.n * y.d, x.d * y.n)
AbsQ(x)   == IF x.nan THEN NaN ELSE [nan |-> FALSE, n |-> AbsInt(x.n), d |-> x.d]

\* comparisons: every comparison with NaN is False, as in IEEE / numpy
Lt(x, y) == ~x.nan /\ ~y.nan /\ x.n * y.d < y.n * x.d
Le(x, y) == ~x.nan /\ ~y.nan /\ x.n * y.d <= y.n * x.d
Gt(x, y) == Lt(y, x)
Ge(x, y) == Le(y, x)
EqQ(x, y) == ~x.nan /\ ~y.nan /\ x.n * y.d = y.n * x.d

MaxQ(x, y) == IF Ge(x, y) THEN x ELSE y
MinQ(x, y) == IF Le(x, y) THEN x ELSE y

Zero == Num(0)
One  == Num(1)

\* Series.clip(lower=0)
ClipLower0(x) == IF Lt(x, Zero) THEN Zero ELSE x

RECURSIVE SumOver(_, _)
\* Series.sum(): sum of f[k] over the index set S, missing values skipped
\* (0 for the empty frame)
SumOver(S, f) ==
  IF S = {} THEN Zero
  ELSE LET k == CHOOSE x \in S : TRUE
       IN IF f[k].nan THEN SumOver(S \ {k}, f)
          ELSE Add(f[k], SumOver(S \ {k}, f))

\* Series.mean(): missing values skipped, NaN when nothing is left
MeanOver(S, f) ==
  LET V == {k \in S : ~f[k].nan}
  IN IF V = {} THEN NaN ELSE Div(SumOver(V, f), Num(Cardinality(V)))

\* mean of a boolean column: fraction of rows where it is True
BoolMean(S, T) ==
  IF S = {} THEN NaN ELSE Rat(Cardinality(S \cap T), Cardinality(S))

(***************************************************************************)
(* Domains                                                                 *)
(***************************************************************************)
Outcomes == {"Up", "Down"}

Opposite(o) == IF o = "Up" THEN "Down" ELSE "Up"

(***************************************************************************)
(* Completeness model: per-row columns of analyze_completeness             *)
(***************************************************************************)
\* mutant: a side without buys priced at 0 instead of missing
VwapZeroDefault(cost, shares) == IF shares > 0 THEN Rat(cost, shares) ELSE Zero

\* np.where(shares > 0, cost / shares, np.nan)
Vwap(cost, shares) == IF shares > 0 THEN Rat(cost, shares) ELSE NaN

\* mutant: sidedness judged on the shares still held
IsBothSidedNet(r) ==
  /\ r.buy_up_shares - r.sell_up_shares > 0
  /\ r.buy_down_shares - r.sell_down_shares > 0

IsBothSided(r) == r.buy_up_shares > 0 /\ r.buy_down_shares > 0

\* (buy - sell).clip(lower=0)
NetShares(buy, sell) == ClipLower0(Num(buy - sell))

\* mutant: the ratio without its max_net > 0 guard
BalanceRatioUnguarded(min_net, max_net) == Div(min_net, max_net)

\* np.where(max_net > 0, min_net / max_net, 0)
BalanceRatio(min_net, max_net) ==
  IF Gt(max_net, Zero) THEN Div(min_net, max_net) ELSE Zero

\* np.where(net_up >= net_down, 'Up', 'Down')
ExcessSide(net_up, net_down) == IF Ge(net_up, net_down) THEN "Up" ELSE "Down"

\* bins=[-0.001, 0.33, 0.50, 0.80, 1.001]
TierBins == << Rat(-1, 1000), Rat(33, 100), Rat(50, 100), Rat(80, 100), Rat(1001, 1000) >>
TierLabels == << "very_imbalanced", "imbalanced", "moderate", "well_balanced" >>
NoTier == "NaN"

\* pd.cut(x, bins, labels) with the default right=True: bin i is
\* (bins[i], bins[i+1]]; a value in no bin gets the missing category.
Cut(x, bins, labels) ==
  LET hit == {i \in 1..Len(labels) : Lt(bins[i], x) /\ Le(x, bins[i + 1])}
  IN IF hit = {} THEN NoTier ELSE labels[CHOOSE i \in hit : TRUE]

\* mutant: pd.cut(..., right=False), bins closed on the left
BalanceTierLeftClosed(balance_ratio) ==
  LET hit == {i \in 1..Len(TierLabels) :
                Le(TierBins[i], balance_ratio) /\ Lt(balance_ratio, TierBins[i + 1])}
  IN IF hit = {} THEN NoTier ELSE TierLabels[CHOOSE i \in hit : TRUE]

BalanceTier(balance_ratio) == Cut(balance_ratio, TierBins, TierLabels)

SecondsPerDay == 86400
\* pd.to_datetime(first_fill_ts, unit='s', utc=True).dt.date
DateOf(ts) == ts \div SecondsPerDay

\* mutant: a negative locked-in profit floored at 0
GuaranteedProfitFloored(matched_pairs, spread) ==
  MaxQ(Zero, Mul(matched_pairs, spread))

\* both['matched_pairs'] * both['spread']
GuaranteedProfit(matched_pairs, spread) == Mul(matched_pairs, spread)

\* the columns added to a both-sided row (completeness.py 25-52, 81)
BothRow(r) ==
  LET vwap_up   == Vwap(r.buy_up_cost, r.buy_up_shares)
      vwap_down == Vwap(r.buy_down_cost, r.buy_down_shares)
      combined_vwap == Add(vwap_up, vwap_down)
      spread    == Sub(One, combined_vwap)
      net_up_shares   == NetShares(r.buy_up_shares, r.sell_up_shares)
      net_down_shares == NetShares(r.buy_down_shares, r.sell_down_shares)
      max_net == MaxQ(net_up_shares, net_down_shares)
      min_net == MinQ(net_up_shares, net_down_shares)
      balance_ratio == BalanceRatio(min_net, max_net)
      matched_pairs == min_net
  IN r @@ [ vwap_up |-> vwap_up, vwap_down |-> vwap_down,
            is_both_sided |-> TRUE,
            combined_vwap |-> combined_vwap, spread |-> spread,
            net_up_shares |-> net_up_shares, net_down_shares |-> net_down_shares,
            max_net |-> max_net, min_net |-> min_net,
            balance_ratio |-> balance_ratio,
            matched_pairs |-> matched_pairs,
            unmatched_shares |-> Sub(max_net, min_net),
            excess_side |-> ExcessSide(net_up_shares, net_down_shares),
            guaranteed_profit |-> GuaranteedProfit(matched_pairs, spread),
            balance_tier |-> BalanceTier(balance_ratio),
            date |-> DateOf(r.first_fill_ts) ]

\* the columns of a one-sided row (completeness.py 25-30, 115-119)
OneSidedRow(r) ==
  r @@ [ vwap_up |-> Vwap(r.buy_up_cost, r.buy_up_shares),
         vwap_down |-> Vwap(r.buy_down_cost, r.buy_down_shares),
         is_both_sided |-> FALSE,
         net_up_shares |-> NetShares(r.buy_up_shares, r.sell_up_shares),
         net_down_shares |-> NetShares(r.buy_down_shares, r.sell_down_shares) ]

(***************************************************************************)
(* Resolution linker (completeness.py 91-99, market_structure.py 60-70)    *)
(***************************************************************************)
\* The positions table is keyed by asset (the token of one outcome of one
\* market); a row carries its market and outcome with it.
PosRecord(asset, row) ==
  [ asset |-> asset, condition_id |-> asset[1], outcome |-> asset[2],
    cur_price |-> row.cur_price, is_closed |-> row.is_closed,
    close_timestamp |-> row.close_timestamp ]

\* SELECT * FROM positions [WHERE is_closed = 1]: the query has no ORDER BY,
\* so the result is the selected rows in any one order.
load_positions(table, closed_only) ==
  LET sel == {a \in DOMAIN table : closed_only => table[a].is_closed}
      n == Cardinality(sel)
  IN { [i \in 1..n |-> PosRecord(ord[i], table[ord[i]])] :
         ord \in {f \in [1..n -> sel] : \A i, j \in 1..n : f[i] = f[j] => i = j} }

\* mutant: any price from 0 to 1 taken as a resolution price
IsPriceInRange(cur_price) == Le(Zero, cur_price) /\ Le(cur_price, One)

\* pos['cur_price'].isin([0, 1])
IsResolvedPrice(cur_price) == EqQ(cur_price, Zero) \/ EqQ(cur_price, One)

\* mutant: the outcome label is not flipped for a losing position
WinningOutcomeNoFlip(p) == p.outcome

\* np.where(cur_price == 1, outcome, outcome.map({'Up': 'Down', 'Down': 'Up'}))
WinningOutcome(p) == IF EqQ(p.cur_price, One) THEN p.outcome ELSE Opposite(p.outcome)

\* drop_duplicates('condition_id') keeps the first row of each market
KeptRow(rows, c) ==
  CHOOSE i \in 1..Len(rows) :
    /\ rows[i].condition_id = c
    /\ \A j \in 1..(i - 1) : rows[j].condition_id # c

\* condition_id -> winning_outcome
Resolution(pos) ==
  LET pos_resolved == SelectSeq(pos, LAMBDA p : IsResolvedPrice(p.cur_price))
      ids == {pos_resolved[i].condition_id : i \in 1..Len(pos_resolved)}
  IN [c \in ids |-> WinningOutcome(pos_resolved[KeptRow(pos_resolved, c)])]

\* mutant: the winning shares valued at their purchase price, not at 1
ResolvedRowPayoutAtCost(b, winning_outcome) ==
  LET resolution_payout ==
        IF winning_outcome = "Up" THEN Mul(b.net_up_shares, b.vwap_up)
        ELSE Mul(b.net_down_shares, b.vwap_down)
      total_buy  == Num(b.buy_up_cost + b.buy_down_cost)
      total_sell == Num(b.sell_up_proceeds + b.sell_down_proceeds)
  IN b @@ [ winning_outcome |-> winning_outcome,
            resolution_payout |-> resolution_payout,
            total_buy |-> total_buy, total_sell |-> total_sell,
            trade_pnl |-> Sub(Add(resolution_payout, total_sell), total_buy) ]

\* the columns added by the merge with resolution (completeness.py 102-112, 120-130)
ResolvedRow(b, winning_outcome) ==
  LET resolution_payout ==
        IF winning_outcome = "Up" THEN b.net_up_shares ELSE b.net_down_shares
      total_buy  == Num(b.buy_up_cost + b.buy_down_cost)
      total_sell == Num(b.sell_up_proceeds + b.sell_down_proceeds)
  IN b @@ [ winning_outcome |-> winning_outcome,
            resolution_payout |-> resolution_payout,
            total_buy |-> total_buy, total_sell |-> total_sell,
            trade_pnl |-> Sub(Add(resolution_payout, total_sell), total_buy) ]

(***************************************************************************)
(* Directional prediction test (completeness.py 143-213, 269-280)          *)
(***************************************************************************)
\* np.where(a >= b, 'Up', 'Down') on two integer columns
TiltSide(up, down) == IF up >= down THEN "Up" ELSE "Down"

\* np.where(vwap_up <= vwap_down, 'Up', 'Down')
CheaperSide(r) == IF Le(r.vwap_up, r.vwap_down) THEN "Up" ELSE "Down"

SymmetricGap == Rat(5, 100)
\* both_resolved['vwap_gap'] < 0.05
IsSymmetric(r) == Lt(AbsQ(Sub(r.vwap_up, r.vwap_down)), SymmetricGap)

\* the tilt columns added to a resolved both-sided row
TiltRow(r) ==
  r @@ [ net_share_correct   |-> r.excess_side = r.winning_outcome,
         gross_share_correct |->
           TiltSide(r.buy_up_shares, r.buy_down_shares) = r.winning_outcome,
         dollar_tilt_correct |->
           TiltSide(r.buy_up_cost, r.buy_down_cost) = r.winning_outcome,
         null_correct        |-> CheaperSide(r) = r.winning_outcome,
         actual_up_dollar_frac |->
           Div(Num(r.buy_up_cost), Num(r.buy_up_cost + r.buy_down_cost)),
         price_implied_up_frac |->
           Div(r.vwap_up, Add(r.vwap_up, r.vwap_down)) ]

\* A z statistic is kept exactly as its sign and its square:
\* z = (observed - null) / sqrt(null * (1 - null) / n).
NaNZ == [nan |-> TRUE, sign |-> 0, sq |-> Zero]

SignQ(x) == IF x.n > 0 THEN 1 ELSE IF x.n < 0 THEN -1 ELSE 0

\* completeness.py 184-188
SymmetricZ(symmetric_count, symmetric_gross_acc, sym_null_acc) ==
  IF symmetric_count > 0 /\ Lt(Zero, sym_null_acc) /\ Lt(sym_null_acc, One)
  THEN LET pq   == Mul(sym_null_acc, Sub(One, sym_null_acc))
           diff == Sub(symmetric_gross_acc, sym_null_acc)
           \* diff^2 / (pq / n), evaluated as (diff^2 / pq) * n
       IN [nan |-> FALSE, sign |-> SignQ(diff),
           sq |-> Mul(Div(Mul(diff, diff), pq), Num(symmetric_count))]
  ELSE NaNZ

\* mutant: a two-tailed test, |z| > c
ZGreaterTwoTailed(z, c) == ~z.nan /\ Gt(z.sq, Mul(c, c))

\* z > c for a positive literal c (False for NaN)
ZGreater(z, c) == ~z.nan /\ z.sign = 1 /\ Gt(z.sq, Mul(c, c))

MinSymmetric == 100
ZCritical == Rat(196, 100)
GapThreshold == Rat(1, 100)

\* mutant: the minimum subset size excluded
HasSymStrict(symmetric_count) == symmetric_count > MinSymmetric

\* symmetric_count >= 100
HasSym(symmetric_count) == symmetric_count >= MinSymmetric

\* has_sym and symmetric_z > 1.96
SymPredicts(symmetric_count, symmetric_z) ==
  HasSym(symmetric_count) /\ ZGreater(symmetric_z, ZCritical)

\* excess_gap > 0.01
DollarPredicts(excess_gap) == Gt(excess_gap, GapThreshold)

Inconclusive == "Inconclusive (insufficient symmetric markets)"
Evidence     == "Evidence of directional prediction"
NoPrediction == "No directional prediction"

\* mutant: evidence only when both tests pass
ConclusionConjunction(symmetric_count, symmetric_z, excess_gap) ==
  IF ~HasSym(symmetric_count) THEN Inconclusive
  ELSE IF SymPredicts(symmetric_count, symmetric_z) /\ DollarPredicts(excess_gap)
       THEN Evidence
       ELSE NoPrediction

\* completeness.py 275-280
Conclusion(symmetric_count, symmetric_z, excess_gap) ==
  IF ~HasSym(symmetric_count) THEN Inconclusive
  ELSE IF SymPredicts(symmetric_count, symmetric_z) \/ DollarPredicts(excess_gap)
       THEN Evidence
       ELSE NoPrediction

\* z-test and conclusion from the corrected statistics
PredictionVerdict(t) ==
  LET symmetric_z == SymmetricZ(t.symmetric_count, t.symmetric_gross, t.symmetric_null)
  IN [ symmetric_z |-> symmetric_z,
       sym_predicts |-> SymPredicts(t.symmetric_count, symmetric_z),
       dollar_predicts |-> DollarPredicts(t.excess_gap),
       conclusion |-> Conclusion(t.symmetric_count, symmetric_z, t.excess_gap) ]

\* the tilt statistics of the resolved both-sided frame
TiltAccuracy(both_resolved) ==
  LET ids == DOMAIN both_resolved
      Where(col) == {m \in ids : both_resolved[m][col]}
      symmetric == {m \in ids : IsSymmetric(both_resolved[m])}
      up_won   == {m \in ids : both_resolved[m].winning_outcome = "Up"}
      down_won == {m \in ids : both_resolved[m].winning_outcome = "Down"}
      actual  == [m \in ids |-> both_resolved[m].actual_up_dollar_frac]
      implied == [m \in ids |-> both_resolved[m].price_implied_up_frac]
      dollar_frac_gap == Sub(MeanOver(up_won, actual), MeanOver(down_won, actual))
      implied_gap == Sub(MeanOver(up_won, implied), MeanOver(down_won, implied))
  IN [ net_share   |-> BoolMean(ids, Where("net_share_correct")),
       gross_share |-> BoolMean(ids, Where("gross_share_correct")),
       dollar      |-> BoolMean(ids, Where("dollar_tilt_correct")),
       null_baseline |-> BoolMean(ids, Where("null_correct")),
       symmetric_count |-> Cardinality(symmetric),
       symmetric_gross |-> BoolMean(symmetric, Where("gross_share_correct")),
       symmetric_net   |-> BoolMean(symmetric, Where("net_share_correct")),
       symmetric_null  |-> BoolMean(symmetric, Where("null_correct")),
       dollar_frac_gap |-> dollar_frac_gap,
       implied_gap |-> implied_gap,
       excess_gap  |-> Sub(dollar_frac_gap, implied_gap) ]

(***************************************************************************)
(* analyze_completeness as a function of the summary and the positions     *)
(***************************************************************************)
TierOrder == {"well_balanced", "moderate", "imbalanced", "very_imbalanced"}

Col(frame, col) == [m \in DOMAIN frame |-> frame[m][col]]

\* pos is what db.load_positions(closed_only=True) returned to this call
analyze_completeness(pms_in, pos) ==
  LET both_ids == {m \in DOMAIN pms_in : IsBothSided(pms_in[m])}
      both == [m \in both_ids |-> BothRow(pms_in[m])]
      one_ids == DOMAIN pms_in \ both_ids
      one_sided == [m \in one_ids |-> OneSidedRow(pms_in[m])]
      InTier(t) == {m \in both_ids : both[m].balance_tier = t}
      \* groupby('balance_tier', observed=True).agg(...).reindex(tier_order)
      tier_summary ==
        [t \in TierOrder |->
           [ count |-> IF InTier(t) = {} THEN NaN ELSE Num(Cardinality(InTier(t))),
             avg_spread |-> MeanOver(InTier(t), Col(both, "spread")),
             total_matched |->
               IF InTier(t) = {} THEN NaN ELSE SumOver(InTier(t), Col(both, "matched_pairs")),
             total_guar_profit |->
               IF InTier(t) = {} THEN NaN
               ELSE SumOver(InTier(t), Col(both, "guaranteed_profit")) ]]
      dates == {both[m].date : m \in both_ids}
      OnDate(d) == {m \in both_ids : both[m].date = d}
      daily_spread ==
        [d \in dates |->
           [ avg_spread |-> MeanOver(OnDate(d), Col(both, "spread")),
             avg_vwap |-> MeanOver(OnDate(d), Col(both, "combined_vwap")),
             markets |-> Cardinality(OnDate(d)) ]]
      resolution == Resolution(pos)
      both_res_ids == both_ids \cap DOMAIN resolution
      both_resolved ==
        [m \in both_res_ids |-> TiltRow(ResolvedRow(both[m], resolution[m]))]
      one_res_ids == one_ids \cap DOMAIN resolution
      one_resolved ==
        [m \in one_res_ids |-> ResolvedRow(one_sided[m], resolution[m])]
      both_pnl == SumOver(both_res_ids, Col(both_resolved, "trade_pnl"))
      one_pnl  == SumOver(one_res_ids, Col(one_resolved, "trade_pnl"))
      tilt_accuracy == TiltAccuracy(both_resolved)
  IN [ per_market_df |-> both,
       one_sided_df  |-> one_sided,
       tier_summary  |-> tier_summary,
       daily_spread  |-> daily_spread,
       resolved_df   |-> both_resolved,
       one_resolved  |-> one_resolved,
       tilt_accuracy |-> tilt_accuracy,
       verdict       |-> PredictionVerdict(tilt_accuracy),
       summary |->
         [ both_sided_count |-> Cardinality(both_ids),
           one_sided_count  |-> Cardinality(one_ids),
           avg_combined_vwap |-> MeanOver(both_ids, Col(both, "combined_vwap")),
           avg_spread |-> MeanOver(both_ids, Col(both, "spread")),
           total_matched_pairs |-> SumOver(both_ids, Col(both, "matched_pairs")),
           total_unmatched |-> SumOver(both_ids, Col(both, "unmatched_shares")),
           total_guaranteed_profit |-> SumOver(both_ids, Col(both, "guaranteed_profit")),
           total_trade_pnl |-> Add(both_pnl, one_pnl) ] ]

(***************************************************************************)
(* analyze_market_structure: sidedness and one-sided accuracy (43-78)      *)
(***************************************************************************)
IsUpOnly(r)   == r.buy_up_shares > 0 /\ r.buy_down_shares = 0
IsDownOnly(r) == r.buy_up_shares = 0 /\ r.buy_down_shares > 0

analyze_market_structure(pms_in, pos) ==
  LET ids == DOMAIN pms_in
      resolution == Resolution(pos)
      one_ids == {m \in ids : IsUpOnly(pms_in[m]) \/ IsDownOnly(pms_in[m])}
      BetSide(m) == IF pms_in[m].buy_up_shares > 0 THEN "Up" ELSE "Down"
      res_ids == one_ids \cap DOMAIN resolution
      one_sided_resolved ==
        [m \in res_ids |->
           [ bet_side |-> BetSide(m), winning_outcome |-> resolution[m],
             bet_correct |-> BetSide(m) = resolution[m] ]]
  IN [ both_sided |-> Cardinality({m \in ids : IsBothSided(pms_in[m])}),
       up_only    |-> Cardinality({m \in ids : IsUpOnly(pms_in[m])}),
       down_only  |-> Cardinality({m \in ids : IsDownOnly(pms_in[m])}),
       one_sided_resolved |-> one_sided_resolved,
       one_sided_win_rate |->
         IF res_ids = {} THEN Zero
         ELSE BoolMean(res_ids, {m \in res_ids : one_sided_resolved[m].bet_correct}) ]

(***************************************************************************)
(* analyze_pnl: three-component decomposition (pnl.py 36-64)               *)
(***************************************************************************)
PnlRow(r) ==
  LET completeness_spread == r.guaranteed_profit
      excess_vwap == IF r.excess_side = "Up" THEN r.vwap_up ELSE r.vwap_down
      excess_wins == r.excess_side = r.winning_outcome
      directional_drag ==
        IF excess_wins THEN Mul(r.unmatched_shares, Sub(One, excess_vwap))
        ELSE Mul(r.unmatched_shares, Sub(Zero, excess_vwap))
      sell_pnl ==
        Add(Sub(Num(r.sell_up_proceeds), Mul(Num(r.sell_up_shares), r.vwap_up)),
            Sub(Num(r.sell_down_proceeds), Mul(Num(r.sell_down_shares), r.vwap_down)))
      decomp_sum == Add(Add(completeness_spread, directional_drag), sell_pnl)
  IN r @@ [ completeness_spread |-> completeness_spread,
            excess_vwap |-> excess_vwap, excess_wins |-> excess_wins,
            directional_drag |-> directional_drag,
            sell_pnl |-> sell_pnl, decomp_sum |-> decomp_sum,
            decomp_error |-> AbsQ(Sub(decomp_sum, r.trade_pnl)) ]

\* hold-to-resolution counterfactual (pnl.py 226-238)
HoldRow(r) ==
  LET buy_winning_shares ==
        Num(IF r.winning_outcome = "Up" THEN r.buy_up_shares ELSE r.buy_down_shares)
      hold_pnl == Sub(buy_winning_shares, r.total_buy)
  IN r @@ [ buy_winning_shares |-> buy_winning_shares,
            hold_pnl |-> hold_pnl,
            sell_discipline_value |-> Sub(r.trade_pnl, hold_pnl),
            sell_winning_shares |->
              IF r.winning_outcome = "Up" THEN r.sell_up_shares ELSE r.sell_down_shares,
            sell_losing_shares |->
              IF r.winning_outcome = "Up" THEN r.sell_down_shares ELSE r.sell_up_shares ]

RECURSIVE MaxOver(_, _)
\* Series.max(): NaN for the empty frame
MaxOver(S, f) ==
  IF S = {} THEN NaN
  ELSE LET k == CHOOSE x \in S : TRUE
           rest == MaxOver(S \ {k}, f)
       IN IF rest.nan THEN f[k] ELSE MaxQ(f[k], rest)

analyze_pnl(completeness_result) ==
  LET resolved == [m \in DOMAIN completeness_result.resolved_df |->
                     HoldRow(PnlRow(completeness_result.resolved_df[m]))]
      ids == DOMAIN resolved
  IN [ resolved_df |-> resolved,
       max_error |-> MaxOver(ids, Col(resolved, "decomp_error")),
       total_spread |-> SumOver(ids, Col(resolved, "completeness_spread")),
       total_drag |-> SumOver(ids, Col(resolved, "directional_drag")),
       total_sell_pnl |-> SumOver(ids, Col(resolved, "sell_pnl")),
       total_trade_pnl |-> SumOver(ids, Col(resolved, "trade_pnl")),
       total_hold_pnl |-> SumOver(ids, Col(resolved, "hold_pnl")),
       total_sdv |-> SumOver(ids, Col(resolved, "sell_discipline_value")) ]

(***************************************************************************)
(* analyze_sizing: concurrent capital by event sweep (sizing.py 28-30,     *)
(* 112-135, 161-164)                                                       *)
(***************************************************************************)
\* total_buy_cost - total_sell_proceeds
NetCapital(r) ==
  Num((r.buy_up_cost + r.buy_down_cost) - (r.sell_up_proceeds + r.sell_down_proceeds))

\* pos.groupby('condition_id')['close_timestamp'].max()
CloseTs(pos) ==
  LET ids == {pos[i].condition_id : i \in 1..Len(pos)}
  IN [c \in ids |->
        CHOOSE t \in {pos[i].close_timestamp : i \in {j \in 1..Len(pos) : pos[j].condition_id = c}} :
          \A i \in 1..Len(pos) : pos[i].condition_id = c => pos[i].close_timestamp <= t]

\* the rows of pd.concat([opens, closes]): +capital at first_fill_ts,
\* -capital at close_ts, one pair per market that has a close_ts
CapitalEvents(both, close_ts) ==
  LET ids == DOMAIN both \cap DOMAIN close_ts
  IN [e \in ids \X {"open", "close"} |->
        IF e[2] = "open"
        THEN [ts |-> both[e[1]].first_fill_ts, delta |-> NetCapital(both[e[1]])]
        ELSE [ts |-> close_ts[e[1]], delta |-> Sub(Zero, NetCapital(both[e[1]]))]]

\* sort_values('ts') with the default kind='quicksort': rows come out in
\* non-decreasing ts; the order of rows with equal ts is not specified.
SortValues(events) ==
  LET n == Cardinality(DOMAIN events)
  IN { f \in [1..n -> DOMAIN events] :
         /\ \A i, j \in 1..n : f[i] = f[j] => i = j
         /\ \A i, j \in 1..n : i < j => events[f[i]].ts <= events[f[j]].ts }

RECURSIVE CumSum(_, _, _)
\* events['delta'].cumsum() up to row k of the sorted frame
CumSum(events, sorted, k) ==
  IF k = 0 THEN Zero ELSE Add(CumSum(events, sorted, k - 1), events[sorted[k]].delta)

\* sorted is the row order that sort_values produced in this run
analyze_sizing(completeness_result, pos, sorted) ==
  LET both == completeness_result.per_market_df
      events == CapitalEvents(both, CloseTs(pos))
      n == Cardinality(DOMAIN events)
      cumulative == [k \in 1..n |-> CumSum(events, sorted, k)]
  IN IF n > 0
     THEN [ cumulative |-> cumulative,
            peak_exposure |-> MaxOver(1..n, cumulative),
            avg_exposure |-> MeanOver(1..n, cumulative) ]
     ELSE [ cumulative |-> << >>,
            peak_exposure |-> Zero, avg_exposure |-> Zero ]

(***************************************************************************)
(* Daily P&L (pnl.py 361-370) and analyze_risk (risk.py 16-157)            *)
(***************************************************************************)
\* valid_pos.groupby('date').agg(pnl=('position_pnl', 'sum')).sort_index()
\* with cumulative_pnl = pnl.cumsum(): the rows in date order
daily_pnl(pos_pnl) ==
  LET valid_pos == {p \in DOMAIN pos_pnl : pos_pnl[p].close_ts > 0}
      dates == {DateOf(pos_pnl[p].close_ts) : p \in valid_pos}
      n == Cardinality(dates)
      sort_index == CHOOSE f \in [1..n -> dates] : \A i, j \in 1..n : i < j => f[i] < f[j]
      OnDate(d) == {p \in valid_pos : DateOf(pos_pnl[p].close_ts) = d}
      UpTo(d) == {p \in valid_pos : DateOf(pos_pnl[p].close_ts) <= d}
      position_pnl == [p \in DOMAIN pos_pnl |-> pos_pnl[p].position_pnl]
  IN [k \in 1..n |->
        [ date |-> sort_index[k],
          pnl |-> SumOver(OnDate(sort_index[k]), position_pnl),
          markets_resolved |-> Cardinality(OnDate(sort_index[k])),
          cumulative_pnl |-> SumOver(UpTo(sort_index[k]), position_pnl) ]]

RECURSIVE MinOver(_, _)
\* Series.min(): NaN for the empty frame
MinOver(S, f) ==
  IF S = {} THEN NaN
  ELSE LET k == CHOOSE x \in S : TRUE
           rest == MinOver(S \ {k}, f)
       IN IF rest.nan THEN f[k] ELSE MinQ(f[k], rest)

\* mutant: the running peak starts from a zero balance
CumMaxFromZero(cum, j) == MaxQ(Zero, MaxOver(1..j, cum))

\* cum.cummax() at row j
CumMax(cum, j) == MaxOver(1..j, cum)

\* float('inf')
Infinity == [nan |-> FALSE, n |-> 1, d |-> 0]

DaysPerYear == 365

\* mutant: only a negative P&L counts as a loss
IsLossStrict(trade_pnl) == Lt(trade_pnl, Zero)

\* is_loss = pnl_seq <= 0
IsLoss(trade_pnl) == Le(trade_pnl, Zero)

\* sort_values('first_fill_ts') with the default kind='quicksort': the
\* order of markets with equal first_fill_ts is not specified.
SortByFirstFill(resolved) ==
  LET n == Cardinality(DOMAIN resolved)
  IN { f \in [1..n -> DOMAIN resolved] :
         /\ \A i, j \in 1..n : f[i] = f[j] => i = j
         /\ \A i, j \in 1..n :
              i < j => resolved[f[i]].first_fill_ts <= resolved[f[j]].first_fill_ts }

RECURSIVE MaxStreak(_, _, _, _, _)
\* the loop over is_loss from row k on: current counts the rows equal to
\* flag since the last other row, best is the largest count seen
MaxStreak(is_loss, flag, k, current, best) ==
  IF k > Len(is_loss) THEN best
  ELSE IF is_loss[k] = flag
       THEN MaxStreak(is_loss, flag, k + 1, current + 1,
                      IF current + 1 > best THEN current + 1 ELSE best)
       ELSE MaxStreak(is_loss, flag, k + 1, 0, best)

IndexError == "IndexError"

\* sorted is the row order that sort_values produced in this run and
\* empty_percentile whether np.percentile raises on an empty array.  The
\* Sharpe ratio (a square root) and the tail percentiles are not modelled.
analyze_risk(pnl_result, sizing_result, sorted, empty_percentile) ==
  LET daily == pnl_result.daily_pnl
      resolved == pnl_result.resolved_df
      daily_returns == [k \in 1..Len(daily) |-> daily[k].pnl]
      trading_days == Len(daily)
      cum == [k \in 1..Len(daily) |-> daily[k].cumulative_pnl]
      drawdown == [j \in 1..Len(daily) |-> Sub(cum[j], CumMax(cum, j))]
      max_dd == MinOver(1..Len(daily), drawdown)
      peak_exposure == sizing_result.summary.peak_exposure
      total_pnl == SumOver(1..Len(daily), daily_returns)
      annualized_return ==
        Mul(total_pnl, Rat(DaysPerYear, IF trading_days > 1 THEN trading_days ELSE 1))
      calmar == IF ~EqQ(max_dd, Zero) /\ ~max_dd.nan
                THEN Div(annualized_return, AbsQ(max_dd)) ELSE Infinity
      is_loss == [k \in 1..Len(sorted) |-> IsLoss(resolved[sorted[k]].trade_pnl)]
  IN IF Len(daily) = 0 \/ (DOMAIN resolved = {} /\ empty_percentile)
     THEN [raised |-> IndexError, summary |-> << >>]
     ELSE [raised |-> "",
           summary |->
             [ max_drawdown |-> max_dd,
               dd_exposure_ratio |->
                 IF Gt(peak_exposure, Zero) THEN Div(AbsQ(max_dd), peak_exposure) ELSE Zero,
               calmar |-> calmar,
               max_loss_streak |-> MaxStreak(is_loss, TRUE, 1, 0, 0),
               max_win_streak |-> MaxStreak(is_loss, FALSE, 1, 0, 0),
               total_pnl_positions |-> total_pnl ]]

(***************************************************************************)
(* The trades table (database.py 13-28, 104-119, 260-286)                  *)
(***************************************************************************)
\* PRIMARY KEY (transaction_hash, asset)
TradeKey(t) == << t.transaction_hash, t.asset >>

\* mutant: a plain INSERT that keeps the row already stored under the key
InsertOnly(table, t) == table \cup {t}

\* INSERT OR REPLACE INTO trades: the row stored under the key is deleted
InsertOrReplace(table, t) ==
  {r \in table : TradeKey(r) # TradeKey(t)} \cup {t}

RECURSIVE upsert_trades(_, _)
\* executemany over the list, in order; an empty list changes nothing
upsert_trades(table, batch) ==
  IF batch = << >> THEN table
  ELSE upsert_trades(InsertOrReplace(table, Head(batch)), Tail(batch))

RECURSIVE SqlSum(_, _)
\* SUM(CASE WHEN ... THEN col ELSE 0 END) over the selected rows
SqlSum(rows, col) ==
  IF rows = {} THEN 0
  ELSE LET r == CHOOSE x \in rows : TRUE IN r[col] + SqlSum(rows \ {r}, col)

SqlMin(rows, col) == CHOOSE v \in {r[col] : r \in rows} : \A r \in rows : v <= r[col]
SqlMax(rows, col) == CHOOSE v \in {r[col] : r \in rows} : \A r \in rows : r[col] <= v

\* SELECT ... FROM trades WHERE activity_type = 'TRADE' GROUP BY condition_id
per_market_summary(table) ==
  LET fills == {t \in table : t.activity_type = "TRADE"}
      ids == {t.condition_id : t \in fills}
      Group(c) == {t \in fills : t.condition_id = c}
      Of(c, side, outcome) == {t \in Group(c) : t.side = side /\ t.outcome = outcome}
  IN [c \in ids |->
        [ buy_up_cost        |-> SqlSum(Of(c, "BUY", "Up"), "usdc_value"),
          buy_up_shares      |-> SqlSum(Of(c, "BUY", "Up"), "size"),
          buy_down_cost      |-> SqlSum(Of(c, "BUY", "Down"), "usdc_value"),
          buy_down_shares    |-> SqlSum(Of(c, "BUY", "Down"), "size"),
          sell_up_proceeds   |-> SqlSum(Of(c, "SELL", "Up"), "usdc_value"),
          sell_up_shares     |-> SqlSum(Of(c, "SELL", "Up"), "size"),
          sell_down_proceeds |-> SqlSum(Of(c, "SELL", "Down"), "usdc_value"),
          sell_down_shares   |-> SqlSum(Of(c, "SELL", "Down"), "size"),
          total_fills |-> Cardinality(Group(c)),
          buy_fills   |-> Cardinality({t \in Group(c) : t.side = "BUY"}),
          sell_fills  |-> Cardinality({t \in Group(c) : t.side = "SELL"}),
          first_fill_ts |-> SqlMin(Group(c), "timestamp"),
          last_fill_ts  |-> SqlMax(Group(c), "timestamp") ]]

(***************************************************************************)
(* Phase 8: on-chain analyses (maker_taker.py 28-60, counterparty.py 30-58)*)
(***************************************************************************)
\* The three database views below are called by the analysers but are not
\* part of storage/database.py; they follow the specification's data model:
\* the number of on-chain fills, the fills matched to a trade, and the
\* per-counterparty aggregates of the fills that name a counterparty.
onchain_fill_count(fills) == Cardinality(fills)

onchain_join_summary(fills) == {f \in fills : f.matched}

counterparty_summary(fills) ==
  LET named == {f \in fills : f.counterparty # ""}
      ids == {f.counterparty : f \in named}
  IN [c \in ids |->
        [ counterparty |-> c,
          fills |-> Cardinality({f \in named : f.counterparty = c}),
          volume |-> SqlSum({f \in named : f.counterparty = c}, "usdc_value") ]]

\* return {'summary': {}, 'available': False}
Unavailable == [summary |-> << >>, available |-> FALSE]

\* raised by the division n_maker / n_total when no fill is matched
ZeroDivisionError == "ZeroDivisionError"

\* the result of analyze_maker_taker, the exception it raised if any, and the
\* database views it read
analyze_maker_taker(fills) ==
  IF onchain_fill_count(fills) = 0
  THEN [result |-> Unavailable, raised |-> "", loaded |-> {"onchain_fill_count"}]
  ELSE LET joined == onchain_join_summary(fills)
           n_maker == Cardinality({f \in joined : f.bot_role = "maker"})
           n_taker == Cardinality({f \in joined : f.bot_role = "taker"})
           n_total == Cardinality(joined)
       IN IF n_total = 0
          THEN [result |-> << >>, raised |-> ZeroDivisionError,
                loaded |-> {"onchain_fill_count", "onchain_join_summary", "trades"}]
          ELSE [result |-> [summary |-> [n_maker |-> n_maker, n_taker |-> n_taker,
                                         n_total |-> n_total],
                            available |-> TRUE],
                raised |-> "",
                loaded |-> {"onchain_fill_count", "onchain_join_summary", "trades"}]

ExchangeContracts == {"exchange"}

\* mutant: only the fill count is tested before the aggregates are used
NoOnchainData(onchain_count, cp) == onchain_count = 0

\* onchain_count == 0, or cp.empty
NoCounterpartyData(onchain_count, cp) == onchain_count = 0 \/ DOMAIN cp = {}

TopTen == 10
TopFifty == 50

\* cp_sorted.head(n)['volume'].sum(): the n largest volumes of the rows S
RECURSIVE HeadVolume(_, _, _)
HeadVolume(cp, S, n) ==
  IF n = 0 \/ S = {} THEN 0
  ELSE LET top == CHOOSE c \in S : \A d \in S : cp[d].volume <= cp[c].volume
       IN cp[top].volume + HeadVolume(cp, S \ {top}, n - 1)

\* np.sum(index * sorted_volumes), the volumes ascending and indexed from i
RECURSIVE IndexedVolume(_, _, _)
IndexedVolume(cp, S, i) ==
  IF S = {} THEN 0
  ELSE LET low == CHOOSE c \in S : \A d \in S : cp[c].volume <= cp[d].volume
       IN i * cp[low].volume + IndexedVolume(cp, S \ {low}, i + 1)

\* the concentration metrics of the real counterparties cp_real, of which
\* there is at least one
Concentration(cp, cp_real) ==
  LET n == Cardinality(cp_real)
      real == {cp[c] : c \in cp_real}
      total_volume == SqlSum(real, "volume")
      \* shares by a zero total are NaN and Series.sum() skips them
      hhi == IF total_volume = 0 THEN Zero
             ELSE SumOver(cp_real, [c \in cp_real |->
                                      Mul(Rat(cp[c].volume, total_volume),
                                          Rat(cp[c].volume, total_volume))])
  IN [ hhi |-> hhi,
       hhi_normalized |-> IF n > 1
                          THEN Div(Sub(hhi, Rat(1, n)), Sub(One, Rat(1, n)))
                          ELSE One,
       gini |-> Sub(Div(Num(2 * IndexedVolume(cp, cp_real, 1)), Num(n * total_volume)),
                    Rat(n + 1, n)),
       top1_share |-> Mul(Rat(HeadVolume(cp, cp_real, 1), total_volume), Num(100)),
       top10_share |-> Mul(Rat(HeadVolume(cp, cp_real, TopTen), total_volume), Num(100)),
       top50_share |-> Mul(Rat(HeadVolume(cp, cp_real, TopFifty), total_volume), Num(100)) ]

\* the result of analyze_counterparties, the exception it raised if any, and
\* the database views it read; cp_sorted.iloc[0] raises IndexError when no
\* row is left after the exchange contracts are filtered out
analyze_counterparties(fills) ==
  LET onchain_count == onchain_fill_count(fills)
      cp == counterparty_summary(fills)
      cp_real == DOMAIN cp \ ExchangeContracts
  IN IF onchain_count = 0
     THEN [result |-> Unavailable, raised |-> "", loaded |-> {"onchain_fill_count"}]
     ELSE IF NoCounterpartyData(onchain_count, cp)
     THEN [result |-> Unavailable, raised |-> "",
           loaded |-> {"onchain_fill_count", "counterparty_summary"}]
     ELSE IF cp_real = {}
     THEN [result |-> << >>, raised |-> IndexError,
           loaded |-> {"onchain_fill_count", "counterparty_summary"}]
     ELSE [result |-> [summary |-> [n_counterparties |-> Cardinality(cp_real),
                                    total_fills |-> SqlSum({cp[c] : c \in cp_real}, "fills"),
                                    total_volume |-> SqlSum({cp[c] : c \in cp_real}, "volume")],
                       concentration |-> Concentration(cp, cp_real),
                       available |-> TRUE],
           raised |-> "",
           loaded |-> {"onchain_fill_count", "counterparty_summary"}]

(***************************************************************************)
(* State                                                                   *)
(***************************************************************************)
VARIABLES
  pms,           \* db.per_market_summary(): condition_id -> aggregate row
  positions,     \* the positions table: asset -> row
  sample,        \* symmetric-subset statistics handed to the prediction test
  pc,            \* the phase the batch run is about to execute
  structure,     \* result of analyze_market_structure
  completeness,  \* result of analyze_completeness
  sizing,        \* result of analyze_sizing
  pnl,           \* result of analyze_pnl
  trades,        \* the trades table: a set of rows, PRIMARY KEY (transaction_hash, asset)
  written,       \* rows handed to upsert_trades so far
  server,        \* the records the activity endpoint holds
  collector,     \* the locals of collect_trades
  onchain,       \* the on-chain fills table
  phase8,        \* results of analyze_maker_taker and analyze_counterparties
  risk,          \* pnl and sizing results handed to analyze_risk, and its result
  client         \* a rate-limited client: its bucket, its cache and the call in progress

vars == << pms, positions, sample, pc, structure, completeness, sizing, pnl,
           trades, written, server, collector, onchain, phase8, risk, client >>

\* the state outside the analysis pipeline of phases 3 to 5
storeVars == << trades, written, server, collector, onchain, phase8, risk, client >>

NoResult == << >>

\* nothing collected, nothing analysed outside phases 3 to 5
StoreIdle ==
  /\ trades = {}
  /\ written = 0
  /\ server = {}
  /\ collector = NoResult
  /\ onchain = {}
  /\ phase8 = NoResult
  /\ risk = NoResult
  /\ client = NoResult

(***************************************************************************)
(* Inputs                                                                  *)
(***************************************************************************)
\* A summary row exists only for a market with at least one TRADE fill, and
\* a (side, outcome) total is the sum over the same fills for cost and shares.
RowOk(r) ==
  /\ r.buy_up_shares = 0 => r.buy_up_cost = 0
  /\ r.buy_down_shares = 0 => r.buy_down_cost = 0
  /\ r.sell_up_shares = 0 => r.sell_up_proceeds = 0
  /\ r.sell_down_shares = 0 => r.sell_down_proceeds = 0
  /\ r.buy_up_shares + r.buy_down_shares + r.sell_up_shares + r.sell_down_shares > 0

SummaryRows(buyShares, buyCosts, sellShares, sellProceeds, fillTs) ==
  { r \in [ buy_up_cost : buyCosts, buy_up_shares : buyShares,
            buy_down_cost : buyCosts, buy_down_shares : buyShares,
            sell_up_proceeds : sellProceeds, sell_up_shares : sellShares,
            sell_down_proceeds : sellProceeds, sell_down_shares : sellShares,
            first_fill_ts : fillTs ] : RowOk(r) }

\* every summary over a subset of the markets
SummaryTables(markets, rows) == UNION { [M -> rows] : M \in SUBSET markets }

Half == Rat(1, 2)

PositionRows(prices, closed, closeTs) ==
  [ cur_price : prices, is_closed : closed, close_timestamp : closeTs ]

\* every positions table with at most maxRows rows
PositionTables(markets, maxRows, rows) ==
  UNION { [A -> rows] :
            A \in {B \in SUBSET (markets \X Outcomes) : Cardinality(B) <= maxRows} }

(***************************************************************************)
(* The batch run (main.py run_phase3 .. run_phase5)                        *)
(***************************************************************************)
InitRun(summaries, tables) ==
  /\ pms \in summaries
  /\ positions \in tables
  /\ sample = NoResult
  /\ pc = "structure"
  /\ structure = NoResult
  /\ completeness = NoResult
  /\ sizing = NoResult
  /\ pnl = NoResult
  /\ StoreIdle

AnalyzeMarketStructure ==
  /\ pc = "structure"
  /\ \E pos \in load_positions(positions, TRUE) :
       structure' = analyze_market_structure(pms, pos)
  /\ pc' = "completeness"
  /\ UNCHANGED << pms, positions, sample, completeness, sizing, pnl , storeVars >>

AnalyzeCompleteness ==
  /\ pc = "completeness"
  /\ \E pos \in load_positions(positions, TRUE) :
       completeness' = analyze_completeness(pms, pos)
  /\ pc' = "sizing"
  /\ UNCHANGED << pms, positions, sample, structure, sizing, pnl, storeVars >>

AnalyzeSizing ==
  /\ pc = "sizing"
  /\ \E pos \in load_positions(positions, TRUE) :
       \E sorted \in SortValues(CapitalEvents(completeness.per_market_df, CloseTs(pos))) :
         sizing' = analyze_sizing(completeness, pos, sorted)
  /\ pc' = "pnl"
  /\ UNCHANGED << pms, positions, sample, structure, completeness, pnl , storeVars >>

AnalyzePnl ==
  /\ pc = "pnl"
  /\ pnl' = analyze_pnl(completeness)
  /\ pc' = "done"
  /\ UNCHANGED << pms, positions, sample, structure, completeness, sizing , storeVars >>

Next ==
  \/ AnalyzeMarketStructure
  \/ AnalyzeCompleteness
  \/ AnalyzeSizing
  \/ AnalyzePnl

(***************************************************************************)
(* Specifications: the same run over different families of inputs          *)
(***************************************************************************)
Markets == {"m1", "m2"}
MaxShares == 2
MaxCost == 1
MaxPositions == 2

\* one market, every combination of small totals, resolved or not
InitMarket ==
  InitRun(SummaryTables({"m1"}, SummaryRows(0..MaxShares, 0..MaxCost,
                                              0..MaxShares, 0..MaxCost, {0})),
          PositionTables({"m1"}, 1, PositionRows({Zero, One}, {TRUE}, {1})))

SpecMarket == InitMarket /\ [][Next]_vars

\* two markets (buys only), every positions table of a few rows: closed at
\* price 0, 1/2 or 1, or still open at price 1
Init ==
  InitRun(SummaryTables(Markets, SummaryRows(0..1, 0..1, {0}, {0}, {0})),
          PositionTables(Markets, MaxPositions,
                         { r \in PositionRows({Zero, Half, One}, BOOLEAN, {1}) :
                             r.is_closed \/ r.cur_price = One }))

Spec == Init /\ [][Next]_vars

\* the analysis run once more on the same database: phase 3 recomputes the
\* completeness result from the same summary and the same positions table
RecomputeCompleteness ==
  /\ pc = "sizing"
  /\ \E pos \in load_positions(positions, TRUE) :
       completeness' = analyze_completeness(pms, pos)
  /\ pc' = "recomputed"
  /\ UNCHANGED << pms, positions, sample, structure, sizing, pnl, storeVars >>

NextRecompute == AnalyzeMarketStructure \/ AnalyzeCompleteness \/ RecomputeCompleteness

SpecRecompute == Init /\ [][NextRecompute]_vars

\* one both-sided market without sells over a range of share counts, so that
\* the balance ratio meets every tier threshold
MaxTierShares == 100

InitTier ==
  InitRun([{"m1"} -> SummaryRows(1..MaxTierShares, {1}, {0}, {0}, {0})],
          PositionTables({"m1"}, 0, PositionRows({One}, {TRUE}, {1})))

SpecTier == InitTier /\ [][Next]_vars

\* two both-sided markets with capital 100..200 and closed positions, over
\* every placement of their open intervals on a short time line
MaxTs == 3

InitSizing ==
  /\ InitRun(SummaryTables(Markets, SummaryRows({1}, {50, 100}, {0}, {0}, 0..MaxTs)),
             PositionTables(Markets, MaxPositions,
                            PositionRows({One}, {TRUE}, 0..MaxTs)))
  \* a position is closed after the market's first fill
  /\ \A a \in DOMAIN positions :
       a[1] \in DOMAIN pms => pms[a[1]].first_fill_ts < positions[a].close_timestamp

SpecSizing == InitSizing /\ [][Next]_vars

(***************************************************************************)
(* The prediction test on its own: the z-test and the conclusion are a     *)
(* function of the symmetric-subset statistics, drawn here around the      *)
(* minimum subset size.                                                    *)
(***************************************************************************)
SmallSample == 2
SampleSlack == 1

SampleSizes ==
  (0..SmallSample) \cup ((MinSymmetric - SampleSlack)..(MinSymmetric + SampleSlack))

ExcessGaps == { NaN, Rat(-1, 100), Zero, GapThreshold, Rat(2, 100) }

\* a symmetric subset of n markets of which g have the gross share tilt on
\* the winner and k have the cheaper side winning
InitPrediction ==
  /\ \E n \in SampleSizes : \E g, k \in 0..n : \E gap \in ExcessGaps :
       sample = [ symmetric_count |-> n,
                  symmetric_gross |-> Rat(g, n),
                  symmetric_null  |-> Rat(k, n),
                  gross_correct |-> g, null_correct |-> k,
                  excess_gap |-> gap ]
  /\ pms = NoResult
  /\ positions = NoResult
  /\ pc = "prediction"
  /\ structure = NoResult
  /\ completeness = NoResult
  /\ sizing = NoResult
  /\ pnl = NoResult
  /\ StoreIdle

PredictionTest ==
  /\ pc = "prediction"
  /\ completeness' = [ tilt_accuracy |-> sample, verdict |-> PredictionVerdict(sample) ]
  /\ pc' = "done"
  /\ UNCHANGED << pms, positions, sample, structure, sizing, pnl, storeVars >>

NextPrediction == PredictionTest

SpecPrediction == InitPrediction /\ [][NextPrediction]_vars

\* one market with buys of 50 or 100 shares a side at a few dollar totals,
\* sells below and above what was bought, resolved either way or not at all
GrossShares == {0, 50, 100}
GrossCosts == {0, 40, 45, 60}
GrossSellShares == {0, 30, 120}
GrossSellProceeds == {0, 20}

InitGross ==
  InitRun([{"m1"} -> SummaryRows(GrossShares, GrossCosts,
                                 GrossSellShares, GrossSellProceeds, {0})],
          PositionTables({"m1"}, 1, PositionRows({Zero, One}, {TRUE}, {1})))

SpecGross == InitGross /\ [][Next]_vars

(***************************************************************************)
(* Storing fills and summarising them                                      *)
(***************************************************************************)
MaxSize == 2
MaxWritten == 4

\* a token belongs to one outcome of one market
TokenMarket(asset) == IF asset = "u1" THEN "m1" ELSE "m2"
TokenOutcome(asset) == IF asset = "u1" THEN "Up" ELSE "Down"

TradeKeys == { << "t1", "u1" >>, << "t2", "u1" >>, << "t1", "d2" >> }

\* the records the activity feed can deliver under a key: a BUY or SELL fill,
\* or a maker rebate (no side, no shares)
FeedRows(k) ==
  { [ transaction_hash |-> k[1], asset |-> k[2], side |-> sd,
      outcome |-> TokenOutcome(k[2]), size |-> n, usdc_value |-> 3 * n,
      timestamp |-> IF k[1] = "t1" THEN 1 ELSE 2,
      condition_id |-> TokenMarket(k[2]), activity_type |-> "TRADE" ]
    : sd \in {"BUY", "SELL"}, n \in 1..MaxSize }
  \cup
  { [ transaction_hash |-> k[1], asset |-> k[2], side |-> "",
      outcome |-> TokenOutcome(k[2]), size |-> 0, usdc_value |-> 1,
      timestamp |-> IF k[1] = "t1" THEN 1 ELSE 2,
      condition_id |-> TokenMarket(k[2]), activity_type |-> "MAKER_REBATE" ] }

AllFeedRows == UNION { FeedRows(k) : k \in TradeKeys }

\* the lists handed to upsert_trades: empty, one row, or two rows
Batches ==
  { << >> } \cup { << a >> : a \in AllFeedRows }
            \cup { << a, b >> : a \in AllFeedRows, b \in AllFeedRows }

InitTrades ==
  /\ pms = NoResult
  /\ positions = NoResult
  /\ sample = NoResult
  /\ pc = "store"
  /\ structure = NoResult
  /\ completeness = NoResult
  /\ sizing = NoResult
  /\ pnl = NoResult
  /\ StoreIdle

\* db.upsert_trades(batch)
UpsertTrades ==
  /\ pc \in {"store", "summarised"}
  /\ \E batch \in Batches :
       /\ written + Len(batch) <= MaxWritten
       /\ trades' = upsert_trades(trades, batch)
       /\ written' = written + Len(batch)
  /\ pc' = "store"
  /\ UNCHANGED << pms, positions, sample, structure, completeness, sizing, pnl,
                  server, collector, onchain, phase8, risk, client >>

\* pms = db.per_market_summary()
PerMarketSummary ==
  /\ pc = "store"
  /\ pms' = per_market_summary(trades)
  /\ pc' = "summarised"
  /\ UNCHANGED << positions, sample, structure, completeness, sizing, pnl, storeVars >>

NextTrades == UpsertTrades \/ PerMarketSummary

(***************************************************************************)
(* run_phase8                                                              *)
(***************************************************************************)
MaxFills == 2

OnchainRows ==
  [ transaction_hash : {"t1", "t2"}, bot_role : {"maker", "taker"},
    counterparty : {"", "cpA", "cpB", "exchange"}, usdc_value : {1, 2},
    matched : BOOLEAN ]

\* the sets of at most n on-chain fills
RECURSIVE FillSets(_)
FillSets(n) ==
  IF n = 0 THEN {{}}
  ELSE FillSets(n - 1) \cup {F \cup {f} : F \in FillSets(n - 1), f \in OnchainRows}

InitOnchain ==
  /\ pms = NoResult
  /\ positions = NoResult
  /\ sample = NoResult
  /\ pc = "maker_taker"
  /\ structure = NoResult
  /\ completeness = NoResult
  /\ sizing = NoResult
  /\ pnl = NoResult
  /\ trades = {}
  /\ written = 0
  /\ server = {}
  /\ collector = NoResult
  /\ onchain \in FillSets(MaxFills)
  /\ phase8 = NoResult
  /\ risk = NoResult
  /\ client = NoResult

\* maker_taker = analyze_maker_taker(db, completeness, structure); an
\* exception ends the run
AnalyzeMakerTaker ==
  /\ pc = "maker_taker"
  /\ LET r == analyze_maker_taker(onchain)
     IN /\ phase8' = [maker_taker |-> r]
        /\ pc' = IF r.raised = ZeroDivisionError THEN "raised" ELSE "counterparties"
  /\ UNCHANGED << pms, positions, sample, structure, completeness, sizing, pnl,
                  trades, written, server, collector, onchain, risk, client >>

\* counterparties = analyze_counterparties(db); an exception ends the run
AnalyzeCounterparties ==
  /\ pc = "counterparties"
  /\ LET r == analyze_counterparties(onchain)
     IN /\ phase8' = [maker_taker |-> phase8.maker_taker, counterparties |-> r]
        /\ pc' = IF r.raised = IndexError THEN "raised" ELSE "phase8_done"
  /\ UNCHANGED << pms, positions, sample, structure, completeness, sizing, pnl,
                  trades, written, server, collector, onchain, risk, client >>

NextOnchain == AnalyzeMakerTaker \/ AnalyzeCounterparties

SpecOnchain == InitOnchain /\ [][NextOnchain]_vars

(***************************************************************************)
(* collect_trades (trade_collector.py 15-116) against the activity         *)
(* endpoint, with the page size, offset limit and flush threshold scaled   *)
(* down (config.py 18-19: 1000 and 3000; trade_collector.py 12: 10 000)    *)
(***************************************************************************)
PAGE_SIZE == 1
MAX_OFFSET == 1
FLUSH_EVERY == 2
MaxRecords == 5
MaxTimestamp == 3

\* no run has more windows than this: a window past the first follows one
\* that collected a new record
MaxWindows == MaxRecords + 1

\* _parse_trade: a camelCase API record as a Trade
ParseTrade(raw) ==
  [ transaction_hash |-> raw.transactionHash, asset |-> raw.asset, side |-> raw.side,
    outcome |-> TokenOutcome(raw.asset), size |-> raw.size, usdc_value |-> raw.usdcSize,
    timestamp |-> raw.timestamp, condition_id |-> TokenMarket(raw.asset),
    activity_type |-> raw.type ]

\* record k of the endpoint, one fill of one share
RawRecord(k, ts) ==
  [ transactionHash |-> << "h", k >>, asset |-> "u1", side |-> "BUY", size |-> 1,
    usdcSize |-> 1, timestamp |-> ts, type |-> "TRADE" ]

\* what the endpoint holds for the wallet and type, newest first
Feeds ==
  UNION { { [k \in 1..n |-> RawRecord(k, ts[k])] :
              ts \in {f \in [1..n -> 1..MaxTimestamp] :
                        \A i, j \in 1..n : i < j => f[i] >= f[j]} } :
          n \in 0..MaxRecords }

\* Optional[int]: None, or Some(ts)
None == << >>
Some(ts) == << ts >>

\* GET /activity?limit=&offset=&end=: the records with timestamp <= end,
\* newest first, from position offset on, at most limit of them
Get(feed, limit, offset, end) ==
  LET upto == SelectSeq(feed, LAMBDA r : end = None \/ r.timestamp <= end[1])
  IN SubSeq(upto, offset + 1, IF offset + limit < Len(upto) THEN offset + limit ELSE Len(upto))

\* mutant: the timestamp of a record already seen lowers window_oldest_ts too
ScanRecordAnyTimestamp(c, raw) ==
  LET key == << raw.transactionHash, raw.asset >>
      oldest == IF c.window_oldest_ts = None \/ raw.timestamp < c.window_oldest_ts[1]
                THEN Some(raw.timestamp) ELSE c.window_oldest_ts
  IN IF key \in c.seen THEN [c EXCEPT !.window_oldest_ts = oldest]
     ELSE [c EXCEPT !.seen = c.seen \cup {key},
                    !.buffer = Append(c.buffer, ParseTrade(raw)),
                    !.window_oldest_ts = oldest]

\* the body of `for raw in data`: skip a key already seen, else record it,
\* buffer the parsed trade and lower window_oldest_ts
ScanRecord(c, raw) ==
  LET key == << raw.transactionHash, raw.asset >>
  IN IF key \in c.seen THEN c
     ELSE [c EXCEPT !.seen = c.seen \cup {key},
                    !.buffer = Append(c.buffer, ParseTrade(raw)),
                    !.window_oldest_ts =
                      IF c.window_oldest_ts = None \/ raw.timestamp < c.window_oldest_ts[1]
                      THEN Some(raw.timestamp) ELSE c.window_oldest_ts]

RECURSIVE Scan(_, _)
\* for raw in data
Scan(c, data) ==
  IF data = << >> THEN c ELSE Scan(ScanRecord(c, Head(data)), Tail(data))

\* mutant: the buffer is not cleared after a flush
FlushedKeepBuffer(c) ==
  [c EXCEPT !.total_collected = @ + Len(c.buffer)]

\* total_collected += len(buffer); buffer.clear()
Flushed(c) ==
  [c EXCEPT !.total_collected = @ + Len(c.buffer), !.buffer = << >>]

\* what client.get returns: a list of records, or an error payload (a dict)
ListResponse(body) == [is_list |-> TRUE, body |-> body]
ErrorResponse == [is_list |-> FALSE, body |-> << >>]

\* the responses of an endpoint that may also fail or cut a page short: the
\* page asked for, any shorter prefix of it (down to the empty page), or an
\* error payload
DegradedResponses(page) ==
  {ErrorResponse} \cup {ListResponse(SubSeq(page, 1, n)) : n \in 0..(Len(page) - 1)}

InitCollect ==
  /\ pms = NoResult
  /\ positions = NoResult
  /\ sample = NoResult
  /\ pc = "fetch"
  /\ structure = NoResult
  /\ completeness = NoResult
  /\ sizing = NoResult
  /\ pnl = NoResult
  /\ trades = {}
  /\ written = 0
  /\ server \in Feeds
  /\ collector = [ seen |-> {}, buffer |-> << >>, total_collected |-> 0,
                   window_end_ts |-> None, window_num |-> 1, offset |-> 0,
                   window_oldest_ts |-> None, data |-> ListResponse(<< >>) ]
  /\ onchain = {}
  /\ phase8 = NoResult
  /\ risk = NoResult
  /\ client = NoResult

\* one pass of the inner loop on the response data: a non-list ends the
\* window; a list is scanned, a full buffer flushed, and the loop moves to
\* the next page, slides the window backward, or leaves both loops
ProcessPage(data) ==
  LET scanned == IF data.is_list THEN Scan(collector, data.body) ELSE collector
      flush == data.is_list /\ Len(scanned.buffer) >= FLUSH_EVERY
      c == [(IF flush THEN Flushed(scanned) ELSE scanned) EXCEPT !.data = data]
      window_exhausted == data.is_list /\ Len(data.body) < PAGE_SIZE
      window_done == ~data.is_list \/ window_exhausted \/ c.offset + PAGE_SIZE > MAX_OFFSET
  IN /\ trades' = IF flush THEN upsert_trades(trades, scanned.buffer) ELSE trades
     /\ written' = IF flush THEN written + Len(scanned.buffer) ELSE written
     /\ IF ~window_done
        THEN /\ collector' = [c EXCEPT !.offset = @ + PAGE_SIZE]
             /\ pc' = "fetch"
        ELSE IF window_exhausted \/ c.window_oldest_ts = None
        THEN /\ collector' = c
             /\ pc' = "flush"
        ELSE /\ collector' = [c EXCEPT !.window_end_ts = c.window_oldest_ts,
                                       !.window_num = @ + 1, !.offset = 0,
                                       !.window_oldest_ts = None]
             /\ pc' = "fetch"

\* a request that the endpoint answers with the page asked for
FetchPage ==
  /\ pc = "fetch"
  /\ collector.window_num <= MaxWindows
  /\ ProcessPage(ListResponse(Get(server, PAGE_SIZE, collector.offset,
                                  collector.window_end_ts)))
  /\ UNCHANGED << pms, positions, sample, structure, completeness, sizing, pnl,
                  server, onchain, phase8, risk, client >>

\* a request that the endpoint answers with a short page or an error payload
FetchDegraded ==
  /\ pc = "fetch"
  /\ collector.window_num <= MaxWindows
  /\ \E data \in DegradedResponses(Get(server, PAGE_SIZE, collector.offset,
                                       collector.window_end_ts)) :
       ProcessPage(data)
  /\ UNCHANGED << pms, positions, sample, structure, completeness, sizing, pnl,
                  server, onchain, phase8, risk, client >>

\* the final flush, and the return
FinalFlush ==
  /\ pc = "flush"
  /\ trades' = upsert_trades(trades, collector.buffer)
  /\ written' = written + Len(collector.buffer)
  /\ collector' = Flushed(collector)
  /\ pc' = "collected"
  /\ UNCHANGED << pms, positions, sample, structure, completeness, sizing, pnl,
                  server, onchain, phase8, risk, client >>

NextCollect == FetchPage \/ FinalFlush

SpecCollect == InitCollect /\ [][NextCollect]_vars

(***************************************************************************)
(* The rate-limited clients: RateLimitedClient.get (api_client.py 45-125)  *)
(* and PolygonRPC.call (onchain_collector.py 50-100)                       *)
(***************************************************************************)
MAX_RETRIES == 5
POLYGON_RPC_MAX_RETRIES == 5
BACKOFF_BASE == 1
BACKOFF_FACTOR == 2
MaxCalls == 2

RECURSIVE Pow(_, _)
Pow(b, e) == IF e = 0 THEN 1 ELSE b * Pow(b, e - 1)

\* wait = config.BACKOFF_BASE * (config.BACKOFF_FACTOR ** attempt)
Backoff(attempt) == BACKOFF_BASE * Pow(BACKOFF_FACTOR, attempt)

\* Python's None, which is also what json.load gives for the text null
PyNone == "None"

CacheKeys == {"k1", "k2"}

\* the JSON values an endpoint answers with
Bodies == {PyNone, "[a]", "[b]"}

\* mutant: a miss is a missing file, whatever an existing file holds
ReadCacheFile(cache, cache_key) ==
  IF cache_key \in DOMAIN cache /\ cache[cache_key] # PyNone
  THEN cache[cache_key] ELSE PyNone

\* _read_cache: the content of the file if it exists, else None
ReadCache(cache, cache_key) ==
  IF cache_key \in DOMAIN cache THEN cache[cache_key] ELSE PyNone

\* _write_cache
WriteCache(cache, cache_key, data) ==
  [k \in DOMAIN cache \cup {cache_key} |-> IF k = cache_key THEN data ELSE cache[k]]

\* what session.get can bring: a response with a status and a JSON body, or
\* no response at all (status 0: a connection-level RequestException)
HttpResponses ==
  {[status |-> 200, body |-> b] : b \in Bodies}
    \cup {[status |-> st, body |-> PyNone] : st \in {0, 404, 429, 500, 502, 503, 504}}

\* what session.post can bring from the JSON-RPC node
RpcResponses ==
  {[status |-> 200, body |-> b] :
     b \in {"result", "error -32005", "error -32000", "error -32601"}}
    \cup {[status |-> st, body |-> PyNone] : st \in {0, 404, 429, 500}}

HTTPError(status) == << "HTTPError", status >>
ConnectionError == << "ConnectionError", 0 >>
RuntimeError == << "RuntimeError", 0 >>
NoException == << "None", 0 >>

\* a call returns
Returned(call, value) == [call EXCEPT !.outcome = "returned", !.value = value]

\* a call raises
Raised(call, exception) == [call EXCEPT !.outcome = "raised", !.exception = exception]

\* time.sleep(wait); continue, and after the last attempt
\* raise last_exception or RuntimeError(...)
Continue(call, retries, last_exception) ==
  LET c == [call EXCEPT !.slept = Append(@, Backoff(call.attempt)),
                        !.attempt = @ + 1,
                        !.last_exception = last_exception]
  IN IF c.attempt < retries THEN c
     ELSE Raised(c, IF last_exception # NoException THEN last_exception ELSE RuntimeError)

\* mutant: every HTTP error status is retried
IsRetriedStatusAny(status) == TRUE

\* resp.status_code in (500, 502, 503, 504)
IsRetriedStatus(status) == status \in {500, 502, 503, 504}

\* one pass of `for attempt in range(config.MAX_RETRIES)` of get on the
\* response resp
GetAttempt(call, resp) ==
  LET c == [call EXCEPT !.requests = @ + 1, !.status = resp.status]
  IN IF resp.status = 0 THEN Continue(c, MAX_RETRIES, ConnectionError)
     ELSE IF resp.status = 429 THEN Continue(c, MAX_RETRIES, c.last_exception)
     ELSE IF resp.status = 200 THEN Returned(c, resp.body)
     ELSE IF IsRetriedStatus(resp.status)
     THEN Continue(c, MAX_RETRIES, HTTPError(resp.status))
     ELSE Raised(c, HTTPError(resp.status))

\* one pass of `for attempt in range(config.POLYGON_RPC_MAX_RETRIES)` of
\* call: a token, then the request
RpcAttempt(call, resp) ==
  LET c == [call EXCEPT !.requests = @ + 1, !.status = resp.status, !.tokens = @ + 1]
  IN IF resp.status = 0 THEN Continue(c, POLYGON_RPC_MAX_RETRIES, ConnectionError)
     ELSE IF resp.status = 429
     THEN Continue(c, POLYGON_RPC_MAX_RETRIES, c.last_exception)
     ELSE IF resp.status # 200
     THEN Continue(c, POLYGON_RPC_MAX_RETRIES, HTTPError(resp.status))
     ELSE IF resp.body \in {"error -32005", "error -32000"}
     THEN Continue(c, POLYGON_RPC_MAX_RETRIES, c.last_exception)
     ELSE IF resp.body = "result" THEN Returned(c, resp.body)
     ELSE Raised(c, RuntimeError)

\* the locals of a call that has just been entered
NewCall(kind, key, skip_cache, cache) ==
  [ kind |-> kind, key |-> key, skip_cache |-> skip_cache, attempt |-> 0,
    last_exception |-> NoException, slept |-> << >>, outcome |-> "running",
    value |-> PyNone, exception |-> NoException, requests |-> 0, tokens |-> 0,
    status |-> 0, cache_before |-> cache ]

InitClient ==
  /\ pms = NoResult
  /\ positions = NoResult
  /\ sample = NoResult
  /\ pc = "ready"
  /\ structure = NoResult
  /\ completeness = NoResult
  /\ sizing = NoResult
  /\ pnl = NoResult
  /\ trades = {}
  /\ written = 0
  /\ server = {}
  /\ collector = NoResult
  /\ onchain = {}
  /\ phase8 = NoResult
  /\ risk = NoResult
  /\ \E use_cache \in BOOLEAN, keys \in SUBSET CacheKeys :
       \E cache \in [keys -> Bodies] :
         client = [ use_cache |-> use_cache, cache |-> cache, calls |-> 0,
                    tokens_taken |-> 0, requests_sent |-> 0,
                    call |-> Returned(NewCall("get", "k1", TRUE, cache), PyNone) ]

\* client.get(url, params, skip_cache) up to its first request: a cached
\* value is returned at once, otherwise a token is awaited and taken
ClientGet ==
  /\ pc = "ready"
  /\ client.calls < MaxCalls
  /\ \E key \in CacheKeys, skip_cache \in BOOLEAN :
       LET call == NewCall("get", key, skip_cache, client.cache)
           cached == IF client.use_cache /\ ~skip_cache
                     THEN ReadCache(client.cache, key) ELSE PyNone
       IN IF cached # PyNone
          THEN /\ client' = [client EXCEPT !.calls = @ + 1,
                                           !.call = Returned(call, cached)]
               /\ pc' = "ready"
          ELSE /\ client' = [client EXCEPT !.calls = @ + 1,
                                           !.tokens_taken = @ + 1,
                                           !.call = [call EXCEPT !.tokens = 1]]
               /\ pc' = "get"
  /\ UNCHANGED << pms, positions, sample, structure, completeness, sizing, pnl,
                  trades, written, server, collector, onchain, phase8, risk >>

\* one HTTP attempt of get and what follows it up to the next attempt
GetRequest ==
  /\ pc = "get"
  /\ \E resp \in HttpResponses :
       LET call == GetAttempt(client.call, resp)
           write == /\ call.outcome = "returned"
                    /\ client.use_cache /\ ~call.skip_cache
       IN /\ client' =
               [client EXCEPT
                  !.call = call,
                  !.requests_sent = @ + 1,
                  !.cache = IF write THEN WriteCache(@, call.key, call.value) ELSE @]
          /\ pc' = IF call.outcome = "running" THEN "get" ELSE "ready"
  /\ UNCHANGED << pms, positions, sample, structure, completeness, sizing, pnl,
                  trades, written, server, collector, onchain, phase8, risk >>

\* rpc.call(method, params) up to its first attempt
RpcCall ==
  /\ pc = "ready"
  /\ client.calls < MaxCalls
  /\ client' = [client EXCEPT !.calls = @ + 1,
                              !.call = NewCall("call", "k1", TRUE, client.cache)]
  /\ pc' = "call"
  /\ UNCHANGED << pms, positions, sample, structure, completeness, sizing, pnl,
                  trades, written, server, collector, onchain, phase8, risk >>

\* one attempt of call: a token, the request, and what follows it
RpcRequest ==
  /\ pc = "call"
  /\ \E resp \in RpcResponses :
       LET call == RpcAttempt(client.call, resp)
       IN /\ client' = [client EXCEPT !.call = call,
                                      !.requests_sent = @ + 1,
                                      !.tokens_taken = @ + 1]
          /\ pc' = IF call.outcome = "running" THEN "call" ELSE "ready"
  /\ UNCHANGED << pms, positions, sample, structure, completeness, sizing, pnl,
                  trades, written, server, collector, onchain, phase8, risk >>

NextClient == ClientGet \/ GetRequest \/ RpcCall \/ RpcRequest

SpecClient == InitClient /\ [][NextClient]_vars

(***************************************************************************)
(* _binary_search_block (onchain_collector.py 310-347)                     *)
(***************************************************************************)
MaxBlock == 5
MaxBlockTs == 4
SearchIterations == 50

\* the chain: block number -> timestamp, non-decreasing
Chains ==
  UNION { {f \in [0..n -> 1..MaxBlockTs] : \A i, j \in 0..n : i < j => f[i] <= f[j]} :
          n \in 1..MaxBlock }

InitSearch ==
  /\ pms = NoResult
  /\ positions = NoResult
  /\ sample = NoResult
  /\ pc = "search"
  /\ structure = NoResult
  /\ completeness = NoResult
  /\ sizing = NoResult
  /\ pnl = NoResult
  /\ trades = {}
  /\ written = 0
  /\ server \in Chains
  /\ \E target_ts \in 1..MaxBlockTs, search_low \in BOOLEAN, lo \in DOMAIN server :
       LET hi == Cardinality(DOMAIN server) - 1
       IN /\ server[lo] <= target_ts
          /\ target_ts <= server[hi]
          /\ collector = [ target_ts |-> target_ts, search_low |-> search_low,
                           lo |-> lo, hi |-> hi, lo0 |-> lo, hi0 |-> hi,
                           iterations |-> 0, result |-> 0 ]
  /\ onchain = {}
  /\ phase8 = NoResult
  /\ risk = NoResult
  /\ client = NoResult

\* one pass of `for _ in range(50)`, or the return after the loop
SearchStep ==
  /\ pc = "search"
  /\ LET c == collector
         mid == (c.lo + c.hi) \div 2
         block_ts == server[mid]
     IN IF c.iterations = SearchIterations \/ c.hi - c.lo <= 1
        THEN /\ collector' = [c EXCEPT !.result = IF c.search_low THEN c.lo ELSE c.hi]
             /\ pc' = "found"
        ELSE IF block_ts < c.target_ts
        THEN /\ collector' = [c EXCEPT !.lo = mid, !.iterations = @ + 1]
             /\ pc' = "search"
        ELSE IF block_ts > c.target_ts
        THEN /\ collector' = [c EXCEPT !.hi = mid, !.iterations = @ + 1]
             /\ pc' = "search"
        ELSE /\ collector' = [c EXCEPT !.result = mid, !.iterations = @ + 1]
             /\ pc' = "found"
  /\ UNCHANGED << pms, positions, sample, structure, completeness, sizing, pnl,
                  trades, written, server, onchain, phase8, risk, client >>

NextSearch == SearchStep

SpecSearch == InitSearch /\ [][NextSearch]_vars

(***************************************************************************)
(* collect_logs_pass (onchain_collector.py 352-415)                        *)
(***************************************************************************)
MaxEndBlock == 3
MaxLogsPerBlock == 2
MaxBatchSize == 3
ResultLimit == 1

RECURSIVE LogCount(_, _, _)
LogCount(chain, from, to) ==
  IF from > to THEN 0 ELSE chain[from] + LogCount(chain, from + 1, to)

\* the logs of blocks from..to in block order, each named by block and index
RECURSIVE LogsOf(_, _, _)
LogsOf(chain, from, to) ==
  IF from > to THEN << >>
  ELSE [k \in 1..chain[from] |-> << from, k >>] \o LogsOf(chain, from + 1, to)

\* eth_getLogs: the node refuses a range that holds more logs than its limit
TooMany(chain, from, to) == LogCount(chain, from, to) > ResultLimit

Request(from, to, answered) == [fromBlock |-> from, toBlock |-> to, answered |-> answered]

SecondHalfFromMid(mid) == mid

SecondHalfFrom(mid) == mid + 1

InitLogs ==
  /\ pms = NoResult
  /\ positions = NoResult
  /\ sample = NoResult
  /\ pc = "logs"
  /\ structure = NoResult
  /\ completeness = NoResult
  /\ sizing = NoResult
  /\ pnl = NoResult
  /\ trades = {}
  /\ written = 0
  /\ server \in [0..MaxEndBlock -> 0..MaxLogsPerBlock]
  /\ \E start_block \in 0..1, end_block \in 0..MaxEndBlock, batch_size \in 1..MaxBatchSize :
       /\ start_block <= end_block
       /\ collector = [ start_block |-> start_block, end_block |-> end_block,
                        batch_size |-> batch_size, batch_start |-> start_block,
                        requests |-> << >>, all_logs |-> << >> ]
  /\ onchain = {}
  /\ phase8 = NoResult
  /\ risk = NoResult
  /\ client = NoResult

\* one pass of the batch loop: the request, and the two halves when the
\* node answers "too many"; other_error is a RuntimeError of rpc.call that
\* is not "too many" (retries exhausted, another RPC error)
CollectBatch ==
  /\ pc = "logs"
  /\ collector.batch_start <= collector.end_block
  /\ \E other_error \in BOOLEAN :
       LET c == collector
           batch_start == c.batch_start
           batch_end == IF batch_start + c.batch_size - 1 < c.end_block
                        THEN batch_start + c.batch_size - 1 ELSE c.end_block
           mid == (batch_start + batch_end) \div 2
           from2 == SecondHalfFrom(mid)
       IN IF other_error
          THEN /\ collector' = [c EXCEPT !.requests = Append(@, Request(batch_start, batch_end, FALSE))]
               /\ pc' = "raised"
          ELSE IF ~TooMany(server, batch_start, batch_end)
          THEN /\ collector' =
                    [c EXCEPT !.requests = Append(@, Request(batch_start, batch_end, TRUE)),
                              !.all_logs = @ \o LogsOf(server, batch_start, batch_end),
                              !.batch_start = batch_start + c.batch_size]
               /\ pc' = "logs"
          ELSE IF TooMany(server, batch_start, mid)
          THEN /\ collector' =
                    [c EXCEPT !.requests = @ \o << Request(batch_start, batch_end, FALSE),
                                                   Request(batch_start, mid, FALSE) >>]
               /\ pc' = "raised"
          ELSE IF TooMany(server, from2, batch_end)
          THEN /\ collector' =
                    [c EXCEPT !.requests = @ \o << Request(batch_start, batch_end, FALSE),
                                                   Request(batch_start, mid, TRUE),
                                                   Request(from2, batch_end, FALSE) >>]
               /\ pc' = "raised"
          ELSE /\ collector' =
                    [c EXCEPT !.requests = @ \o << Request(batch_start, batch_end, FALSE),
                                                   Request(batch_start, mid, TRUE),
                                                   Request(from2, batch_end, TRUE) >>,
                              !.all_logs = @ \o LogsOf(server, batch_start, mid)
                                             \o LogsOf(server, from2, batch_end),
                              !.batch_start = batch_start + c.batch_size]
               /\ pc' = "logs"
  /\ UNCHANGED << pms, positions, sample, structure, completeness, sizing, pnl,
                  trades, written, server, onchain, phase8, risk, client >>

\* the range is exhausted: return all_logs
ReturnLogs ==
  /\ pc = "logs"
  /\ collector.batch_start > collector.end_block
  /\ pc' = "logs_done"
  /\ UNCHANGED << pms, positions, sample, structure, completeness, sizing, pnl,
                  trades, written, server, collector, onchain, phase8, risk, client >>

NextLogs == CollectBatch \/ ReturnLogs

SpecLogs == InitLogs /\ [][NextLogs]_vars

(***************************************************************************)
(* collect_onchain (onchain_collector.py 552-660)                          *)
(***************************************************************************)
MaxLogs == 3
FlushThreshold == 2

TxSeq == << "t1", "t2" >>
TxHashes == {TxSeq[i] : i \in DOMAIN TxSeq}
NLogs == MaxLogs

\* the k-th OrderFilled log of the chain, in block order: its transaction
\* and its index in it
LogTx(k) == TxSeq[((k - 1) % Len(TxSeq)) + 1]
LogIndex(k) == (k - 1) \div Len(TxSeq)

\* who the bot is in a log: "none" is no log at this position, "other" a
\* fill between two other addresses, "both" a fill whose maker and taker
\* are both the bot
LogParties == {"none", "other", "maker", "taker", "both"}

\* the contract that emitted a log: the one discovered from the sample
\* transaction, which passes 1 to 3 filter on, or another exchange contract,
\* whose logs only a receipt shows
ContractAddress == "ctf_exchange"
Contracts == {ContractAddress, "neg_risk_exchange"}

OrderFilledLogs ==
  {l \in [parties : LogParties, address : Contracts] :
     l.parties = "none" => l.address = ContractAddress}

\* decode_order_filled: maker == bot is tested first; the key is
\* (transaction_hash, log_index)
OnchainFill(k, parties) ==
  [ transaction_hash |-> LogTx(k), log_index |-> LogIndex(k),
    bot_role |-> IF parties \in {"maker", "both"} THEN "maker" ELSE "taker" ]

\* the fills decoded from the logs at the accepted positions from k on, in
\* block order
RECURSIVE DecodeLogs(_, _, _)
DecodeLogs(chain, k, accepted) ==
  IF k > NLogs THEN << >>
  ELSE (IF k \in accepted /\ chain[k].parties \in {"maker", "taker", "both"}
        THEN << OnchainFill(k, chain[k].parties) >> ELSE << >>)
       \o DecodeLogs(chain, k + 1, accepted)

\* pass 1 filters topics[2] = bot, pass 2 topics[3] = bot
MakerFills(chain) == DecodeLogs(chain, 1, {k \in 1..NLogs : chain[k].address = ContractAddress
                                                    /\ chain[k].parties \in {"maker", "both"}})
TakerFills(chain) == DecodeLogs(chain, 1, {k \in 1..NLogs : chain[k].address = ContractAddress
                                                    /\ chain[k].parties \in {"taker", "both"}})

\* collect_receipt_fills: the OrderFilled logs of each receipt, decoded
RECURSIVE ReceiptFills(_, _)
ReceiptFills(chain, tx_hashes) ==
  IF tx_hashes = << >> THEN << >>
  ELSE DecodeLogs(chain, 1, {k \in 1..NLogs : chain[k].parties # "none"
                                                /\ LogTx(k) = Head(tx_hashes)})
       \o ReceiptFills(chain, Tail(tx_hashes))

FillKey(f) == << f.transaction_hash, f.log_index >>

IsNewKeyAlways(seen_keys, key) == TRUE

IsNewKey(seen_keys, key) == key \notin seen_keys

\* add_fills: append the fills whose key is new, then flush the buffer to
\* upsert_onchain_fills when it has reached the threshold
RECURSIVE AddEach(_, _)
AddEach(c, new_fills) ==
  IF new_fills = << >> THEN c
  ELSE LET f == Head(new_fills)
       IN AddEach(IF IsNewKey(c.seen_keys, FillKey(f))
                  THEN [c EXCEPT !.seen_keys = @ \cup {FillKey(f)},
                                 !.all_fills = Append(@, f)]
                  ELSE c,
                  Tail(new_fills))

add_fills(c, new_fills) ==
  LET added == AddEach(c, new_fills)
  IN IF Len(added.all_fills) >= FlushThreshold
     THEN [added EXCEPT !.upserts = Append(@, added.all_fills), !.all_fills = << >>]
     ELSE added

TxsOf(fills) == {fills[i].transaction_hash : i \in DOMAIN fills}

\* list(set): the order of the hashes is whatever the set iterates in
TxOrders(S) ==
  {order \in UNION {[1..n -> S] : n \in 0..Len(TxSeq)} :
     /\ Len(order) = Cardinality(S)
     /\ \A i, j \in DOMAIN order : i # j => order[i] # order[j]}

ExistingFill == [transaction_hash |-> "t0", counterparty |-> "", usdc_value |-> 1,
                 matched |-> FALSE, bot_role |-> "maker"]

InitCollectOnchain ==
  /\ pms = NoResult
  /\ positions = NoResult
  /\ sample = NoResult
  /\ pc = "collect_onchain"
  /\ structure = NoResult
  /\ completeness = NoResult
  /\ sizing = NoResult
  /\ pnl = NoResult
  /\ trades = {}
  /\ written = 0
  /\ server \in [fills : [1..NLogs -> OrderFilledLogs], matched : SUBSET TxHashes]
  /\ collector = [ seen_keys |-> {}, all_fills |-> << >>, upserts |-> << >>,
                   fills1 |-> << >>, fills2 |-> << >>, fills3 |-> << >>,
                   logs3 |-> {}, receipts |-> << >>, rpc_calls |-> 0 ]
  /\ onchain \in {{}, {ExistingFill}}
  /\ onchain # {} => server.matched = TxHashes
  /\ phase8 = NoResult
  /\ risk = NoResult
  /\ client = NoResult

onchainUnchanged ==
  UNCHANGED << pms, positions, sample, structure, completeness, sizing, pnl,
               trades, written, server, onchain, phase8, risk, client >>

\* existing > 0: verify and return; else discover the topics and resolve
\* the block range over RPC
CheckExisting ==
  /\ pc = "collect_onchain"
  /\ IF onchain_fill_count(onchain) > 0
     THEN /\ pc' = "verified"
          /\ UNCHANGED collector
     ELSE /\ pc' = "pass1"
          /\ collector' = [collector EXCEPT !.rpc_calls = @ + 1]
  /\ onchainUnchanged

Pass1 ==
  /\ pc = "pass1"
  /\ LET fills1 == MakerFills(server.fills)
     IN collector' = [add_fills(collector, fills1) EXCEPT !.fills1 = fills1,
                                                          !.rpc_calls = @ + 1]
  /\ pc' = "pass2"
  /\ onchainUnchanged

Pass2 ==
  /\ pc = "pass2"
  /\ LET fills2 == TakerFills(server.fills)
     IN collector' = [add_fills(collector, fills2) EXCEPT !.fills2 = fills2,
                                                          !.rpc_calls = @ + 1]
  /\ pc' = "pass3"
  /\ onchainUnchanged

\* pass 3 runs when the OrdersMatched topic was found and receipts are not
\* skipped
Pass3 ==
  /\ pc = "pass3"
  /\ \E run_pass3 \in BOOLEAN :
       IF ~run_pass3
       THEN UNCHANGED collector
       ELSE LET covered_txs == TxsOf(collector.fills1 \o collector.fills2)
                new_txs == server.matched \ covered_txs
            IN \E new_tx_hashes \in TxOrders(new_txs) :
                 LET fills3 == ReceiptFills(server.fills, new_tx_hashes)
                     c == [collector EXCEPT !.logs3 = server.matched,
                                            !.receipts = new_tx_hashes,
                                            !.fills3 = fills3,
                                            !.rpc_calls = @ + 1 + Len(new_tx_hashes)]
                 IN collector' = IF new_tx_hashes = << >> THEN c ELSE add_fills(c, fills3)
  /\ pc' = "final_flush"
  /\ onchainUnchanged

OnchainFinalFlush ==
  /\ pc = "final_flush"
  /\ collector' = IF collector.all_fills # << >>
                  THEN [collector EXCEPT !.upserts = Append(@, collector.all_fills),
                                         !.all_fills = << >>]
                  ELSE collector
  /\ pc' = "onchain_collected"
  /\ onchainUnchanged

\* an RPC call of a pass fails after its retries: the exception leaves
\* collect_onchain with the buffer unflushed
PassRaises ==
  /\ pc \in {"pass1", "pass2", "pass3"}
  /\ collector' = [collector EXCEPT !.rpc_calls = @ + 1]
  /\ pc' = "raised"
  /\ onchainUnchanged

NextCollectOnchain ==
  CheckExisting \/ Pass1 \/ Pass2 \/ Pass3 \/ OnchainFinalFlush \/ PassRaises

SpecCollectOnchain == InitCollectOnchain /\ [][NextCollectOnchain]_vars

\* the same collection against an endpoint that may fail or cut pages short;
\* the loops of collect_trades keep running until it returns
NextCollectDegraded == FetchPage \/ FetchDegraded \/ FinalFlush

SpecCollectDegraded ==
  InitCollect /\ [][NextCollectDegraded]_vars /\ WF_vars(NextCollectDegraded)

(***************************************************************************)
(* run_phase5: analyze_risk on the P&L and sizing results                  *)
(***************************************************************************)
MaxDays == 3
MaxDailyPnl == 2
MaxFillTs == 2

PositionIds == {"p1", "p2", "p3"}

\* position P&L rows: close_ts 0 (never closed) or a second of one of MaxDays days
PosPnlRows ==
  [ close_ts : {0} \cup {d * SecondsPerDay + 1 : d \in 0..(MaxDays - 1)},
    position_pnl : {Num(v) : v \in -MaxDailyPnl..MaxDailyPnl} ]

PosPnlTables == UNION {[S -> PosPnlRows] : S \in SUBSET PositionIds}

RiskMarkets == {"r1", "r2", "r3"}

ResolvedPnlRows ==
  [ first_fill_ts : 1..MaxFillTs, trade_pnl : {Num(-1), Zero, One} ]

ResolvedPnlTables == UNION {[S -> ResolvedPnlRows] : S \in SUBSET RiskMarkets}

PeakExposures == {Zero, Num(4)}

\* either the daily series varies over one resolved market, or the resolved
\* markets vary over one two-day series
InitRisk ==
  /\ pms = NoResult
  /\ positions = NoResult
  /\ sample = NoResult
  /\ pc = "risk"
  /\ structure = NoResult
  /\ completeness = NoResult
  /\ sizing = NoResult
  /\ pnl = NoResult
  /\ trades = {}
  /\ written = 0
  /\ server = {}
  /\ collector = NoResult
  /\ onchain = {}
  /\ phase8 = NoResult
  /\ client = NoResult
  /\ \/ \E pos_pnl \in PosPnlTables, peak \in PeakExposures :
          risk = [ pnl_result |->
                     [ daily_pnl |-> daily_pnl(pos_pnl),
                       resolved_df |-> [m \in {"r1"} |-> [first_fill_ts |-> 1, trade_pnl |-> One]] ],
                   sizing_result |-> [summary |-> [peak_exposure |-> peak]],
                   result |-> NoResult ]
     \/ \E resolved \in ResolvedPnlTables :
          risk = [ pnl_result |->
                     [ daily_pnl |->
                         daily_pnl([p \in {"p1", "p2"} |->
                                      [close_ts |-> IF p = "p1" THEN 1 ELSE SecondsPerDay + 1,
                                       position_pnl |-> IF p = "p1" THEN One ELSE Num(-1)]]),
                       resolved_df |-> resolved ],
                   sizing_result |-> [summary |-> [peak_exposure |-> Zero]],
                   result |-> NoResult ]

\* risk = analyze_risk(pnl_result, sizing_result)
AnalyzeRisk ==
  /\ pc = "risk"
  /\ \E sorted \in SortByFirstFill(risk.pnl_result.resolved_df), empty_percentile \in BOOLEAN :
       risk' = [risk EXCEPT !.result =
                  analyze_risk(risk.pnl_result, risk.sizing_result, sorted, empty_percentile)]
  /\ pc' = "risk_done"
  /\ UNCHANGED << pms, positions, sample, structure, completeness, sizing, pnl,
                  trades, written, server, collector, onchain, phase8, client >>

NextRisk == AnalyzeRisk

SpecRisk == InitRisk /\ [][NextRisk]_vars

SpecTrades == InitTrades /\ [][NextTrades]_vars

(***************************************************************************)
(* Claims                                                                  *)
(***************************************************************************)
Analyzed == pc \in {"sizing", "pnl", "done"}

\* C1: for every resolved both-sided market the three components computed
\* by analyze_pnl sum exactly to the trade P&L computed by
\* analyze_completeness: matched_pairs*spread + unmatched_shares*(payout of
\* the excess side - its VWAP) + sum over sides of (sell proceeds - sell
\* shares * VWAP) = resolution_payout + total_sell - total_buy, whatever the
\* relation between sold and bought shares on a side.
C1_DecompositionExact ==
  pc = "done" =>
    \A m \in DOMAIN pnl.resolved_df :
      LET r == pnl.resolved_df[m]
          payout == IF r.excess_wins THEN One ELSE Zero
      IN /\ EqQ(Add(Add(Mul(r.matched_pairs, r.spread),
                        Mul(r.unmatched_shares, Sub(payout, r.excess_vwap))),
                    r.sell_pnl),
                Sub(Add(r.resolution_payout, r.total_sell), r.total_buy))
         /\ EqQ(r.decomp_sum, r.trade_pnl)

\* net shares of a side as the claim defines them: max(buy - sell, 0)
NetOf(buy, sell) == IF buy - sell > 0 THEN buy - sell ELSE 0
MaxInt(a, b) == IF a >= b THEN a ELSE b
MinInt(a, b) == IF a <= b THEN a ELSE b

\* C2: for every both-sided market, with net shares per side
\* max(buy - sell, 0): matched_pairs + unmatched_shares = max(net_up,
\* net_down), matched_pairs = min(net_up, net_down), balance_ratio =
\* matched_pairs / max(net) when that maximum is positive and exactly 0 when
\* both net sides are zero; hence 0 <= balance_ratio <= 1.
C2_BalanceIdentities ==
  Analyzed =>
    \A m \in DOMAIN completeness.per_market_df :
      LET r == completeness.per_market_df[m]
          net_up   == NetOf(pms[m].buy_up_shares, pms[m].sell_up_shares)
          net_down == NetOf(pms[m].buy_down_shares, pms[m].sell_down_shares)
          hi == MaxInt(net_up, net_down)
          lo == MinInt(net_up, net_down)
      IN /\ Add(r.matched_pairs, r.unmatched_shares) = Num(hi)
         /\ r.matched_pairs = Num(lo)
         /\ hi > 0 => r.balance_ratio = Rat(lo, hi)
         /\ hi = 0 => r.balance_ratio = Zero
         /\ ~r.balance_ratio.nan
         /\ Le(Zero, r.balance_ratio) /\ Le(r.balance_ratio, One)

\* C2 witness: a both-sided market whose two sides were sold out completely
\* (both net sides zero) has been analysed and has balance ratio 0
C2_Witness ==
  /\ Analyzed
  /\ \E m \in DOMAIN completeness.per_market_df :
       /\ pms[m].sell_up_shares >= pms[m].buy_up_shares
       /\ pms[m].sell_down_shares >= pms[m].buy_down_shares
       /\ completeness.per_market_df[m].balance_ratio = Zero

\* the tier of a ratio under closed-open bins [0, 0.33) [0.33, 0.50)
\* [0.50, 0.80) [0.80, 1.0]
ClosedOpenTier(x) ==
  IF Lt(x, Rat(33, 100)) THEN "very_imbalanced"
  ELSE IF Lt(x, Rat(1, 2)) THEN "imbalanced"
  ELSE IF Lt(x, Rat(4, 5)) THEN "moderate"
  ELSE "well_balanced"

\* the tier of a ratio under open-closed bins [0, 0.33] (0.33, 0.50]
\* (0.50, 0.80] (0.80, 1.0]
OpenClosedTier(x) ==
  IF Le(x, Rat(33, 100)) THEN "very_imbalanced"
  ELSE IF Le(x, Rat(1, 2)) THEN "imbalanced"
  ELSE IF Le(x, Rat(4, 5)) THEN "moderate"
  ELSE "well_balanced"

\* C3 (as claimed): every both-sided market is assigned exactly one balance
\* tier by closed-open bins on balance_ratio, so a ratio exactly equal to a
\* threshold (0.33, 0.50, 0.80) falls in the bin that starts there.
C3_ClosedOpenTiers ==
  Analyzed =>
    \A m \in DOMAIN completeness.per_market_df :
      completeness.per_market_df[m].balance_tier =
        ClosedOpenTier(completeness.per_market_df[m].balance_ratio)

\* C3 (amended): every both-sided market is assigned exactly one balance
\* tier by open-closed bins on balance_ratio: [0, 0.33] very_imbalanced,
\* (0.33, 0.50] imbalanced, (0.50, 0.80] moderate, (0.80, 1.0]
\* well_balanced, so a ratio exactly equal to a threshold falls in the bin
\* that ends there.
C3_OpenClosedTiers ==
  Analyzed =>
    \A m \in DOMAIN completeness.per_market_df :
      LET r == completeness.per_market_df[m]
      IN /\ r.balance_tier \in TierOrder
         /\ r.balance_tier = OpenClosedTier(r.balance_ratio)

\* C3 witness: an analysed market whose balance ratio is exactly 0.33 is in
\* the bin that ends at 0.33
C3_Witness ==
  /\ Analyzed
  /\ \E m \in DOMAIN completeness.per_market_df :
       /\ completeness.per_market_df[m].balance_ratio = Rat(33, 100)
       /\ completeness.per_market_df[m].balance_tier = "very_imbalanced"

\* the closed positions of market m whose resolution price is exactly 0 or 1
ResolvingAssets(m) ==
  { a \in DOMAIN positions :
      /\ a[1] = m
      /\ positions[a].is_closed
      /\ positions[a].cur_price \in {Zero, One} }

\* the winner such a position stands for
ImpliedWinner(a) == IF positions[a].cur_price = One THEN a[2] ELSE Opposite(a[2])

CleanlyResolved == {m \in DOMAIN pms : ResolvingAssets(m) # {}}

\* trade P&L of market m from its summary row when outcome w wins
TradePnlOf(m, w) ==
  LET r == pms[m]
      payout == IF w = "Up" THEN NetOf(r.buy_up_shares, r.sell_up_shares)
                ELSE NetOf(r.buy_down_shares, r.sell_down_shares)
  IN payout + (r.sell_up_proceeds + r.sell_down_proceeds)
            - (r.buy_up_cost + r.buy_down_cost)

RECURSIVE SumInt(_, _)
SumInt(S, f) ==
  IF S = {} THEN 0
  ELSE LET k == CHOOSE x \in S : TRUE IN f[k] + SumInt(S \ {k}, f)

\* C4: a market is in the resolved set of analyze_completeness iff it has a
\* closed position whose price is exactly 0 or 1; its winner is that
\* position's outcome at price 1 and the opposite outcome at price 0; a
\* market without such a position is in neither resolved frame, gets no
\* default winner and contributes nothing to trade P&L or tilt accuracy.
C4_ResolvedIffCleanPosition ==
  Analyzed =>
    LET both_res == completeness.resolved_df
        one_res  == completeness.one_resolved
        winner == [m \in DOMAIN both_res \cup DOMAIN one_res |->
                     IF m \in DOMAIN both_res THEN both_res[m].winning_outcome
                     ELSE one_res[m].winning_outcome]
        both_clean == {m \in CleanlyResolved : IsBothSided(pms[m])}
    IN /\ DOMAIN both_res \cap DOMAIN one_res = {}
       /\ DOMAIN winner = CleanlyResolved
       /\ \A m \in DOMAIN winner :
            winner[m] \in {ImpliedWinner(a) : a \in ResolvingAssets(m)}
       /\ DOMAIN structure.one_sided_resolved \subseteq CleanlyResolved
       /\ \A m \in DOMAIN structure.one_sided_resolved :
            structure.one_sided_resolved[m].winning_outcome
              \in {ImpliedWinner(a) : a \in ResolvingAssets(m)}
       /\ completeness.summary.total_trade_pnl =
            Num(SumInt(CleanlyResolved, [m \in CleanlyResolved |-> TradePnlOf(m, winner[m])]))
       /\ completeness.tilt_accuracy.gross_share =
            Rat(Cardinality({m \in both_clean :
                   TiltSide(pms[m].buy_up_shares, pms[m].buy_down_shares) = winner[m]}),
                Cardinality(both_clean))

\* C4 witness: after the analysis, one traded market has positions but none
\* that is closed at price 0 or 1, while another both-sided one is resolved
C4_Witness ==
  /\ Analyzed
  /\ \E m1, m2 \in DOMAIN pms :
       /\ m1 # m2
       /\ ResolvingAssets(m1) = {}
       /\ \E a \in DOMAIN positions : a[1] = m1
       /\ m1 \notin DOMAIN completeness.resolved_df \cup DOMAIN completeness.one_resolved
       /\ m2 \in DOMAIN completeness.resolved_df

\* the winner and the P&L a load order gives every resolved market agree
\* with the ones of this run, for the markets in M
SameUnderEveryOrder(M) ==
  \A pos \in load_positions(positions, TRUE) :
    LET res == Resolution(pos)
    IN /\ \A m \in M \cap DOMAIN completeness.resolved_df :
            /\ res[m] = completeness.resolved_df[m].winning_outcome
            /\ Num(TradePnlOf(m, res[m])) = completeness.resolved_df[m].trade_pnl
       /\ \A m \in M \cap DOMAIN completeness.one_resolved :
            /\ res[m] = completeness.one_resolved[m].winning_outcome
            /\ Num(TradePnlOf(m, res[m])) = completeness.one_resolved[m].trade_pnl

RowsAgree(m) ==
  \A a, b \in ResolvingAssets(m) : ImpliedWinner(a) = ImpliedWinner(b)

\* the winner given to a resolved market m in this run
WinnerOf(m) ==
  IF m \in DOMAIN completeness.resolved_df
  THEN completeness.resolved_df[m].winning_outcome
  ELSE completeness.one_resolved[m].winning_outcome

Restrict(f, S) == [x \in S |-> f[x]]

\* mean spread 1 - (cost_up/shares_up + cost_down/shares_down) over the
\* markets of S
SpreadOf(m) ==
  Sub(One, Add(Rat(pms[m].buy_up_cost, pms[m].buy_up_shares),
               Rat(pms[m].buy_down_cost, pms[m].buy_down_shares)))

\* C6: a market with zero buy shares on one side is one-sided: its VWAP on
\* that side is missing (NaN, not 0), it is not in per_market_df, and it
\* enters no spread statistic (avg_spread, tier summary, daily spread,
\* guaranteed profit totals).
C6_OneSidedExcluded ==
  Analyzed =>
    \A m \in DOMAIN pms :
      (pms[m].buy_up_shares = 0 \/ pms[m].buy_down_shares = 0) =>
        LET others == {x \in DOMAIN pms : x # m /\ IsBothSided(pms[x])}
            rest == analyze_completeness(Restrict(pms, DOMAIN pms \ {m}), << >>)
        IN /\ m \in DOMAIN completeness.one_sided_df
           /\ m \notin DOMAIN completeness.per_market_df
           /\ pms[m].buy_up_shares = 0 => completeness.one_sided_df[m].vwap_up = NaN
           /\ pms[m].buy_down_shares = 0 => completeness.one_sided_df[m].vwap_down = NaN
           /\ DOMAIN completeness.per_market_df = others
           /\ completeness.summary.avg_spread =
                MeanOver(others, [x \in others |-> SpreadOf(x)])
           /\ completeness.tier_summary = rest.tier_summary
           /\ completeness.daily_spread = rest.daily_spread
           /\ completeness.summary.total_guaranteed_profit =
                rest.summary.total_guaranteed_profit

\* C6 witness: an up-only market analysed next to a both-sided market
C6_Witness ==
  /\ Analyzed
  /\ \E m, x \in DOMAIN pms :
       /\ pms[m].buy_up_shares > 0 /\ pms[m].buy_down_shares = 0
       /\ m \in DOMAIN completeness.one_sided_df
       /\ x \in DOMAIN completeness.per_market_df

Sized == pc \in {"pnl", "done"}

\* the both-sided markets that have a close time, and that close time
SizedMarkets ==
  { m \in DOMAIN pms :
      /\ IsBothSided(pms[m])
      /\ \E a \in DOMAIN positions : a[1] = m /\ positions[a].is_closed }

CloseOf(m) ==
  LET ts == { positions[a].close_timestamp :
                a \in {b \in DOMAIN positions : b[1] = m /\ positions[b].is_closed} }
  IN CHOOSE t \in ts : \A u \in ts : u <= t

CapitalOf(m) ==
  (pms[m].buy_up_cost + pms[m].buy_down_cost)
    - (pms[m].sell_up_proceeds + pms[m].sell_down_proceeds)

\* capital in the markets open at instant t, a market being open from its
\* first fill until its close
ExposureAt(t) ==
  LET open == {m \in SizedMarkets : pms[m].first_fill_ts <= t /\ t < CloseOf(m)}
  IN SumInt(open, [m \in open |-> CapitalOf(m)])

Instants == 0..MaxTs

PeakOverInstants == CHOOSE x \in {ExposureAt(t) : t \in Instants} :
                      \A t \in Instants : ExposureAt(t) <= x

\* C7: peak exposure computed by analyze_sizing equals the maximum over all
\* instants of the summed net capital of the markets open at that instant;
\* two markets whose open intervals do not overlap never add up.
C7_PeakIsMaxConcurrent ==
  Sized => sizing.peak_exposure = Num(PeakOverInstants)

\* C8: the conclusion is one of three labels; it is 'Inconclusive' iff the
\* symmetric subset has fewer than 100 markets, whatever the z statistic
\* and the excess gap are, and an undersized sample is never reported as
\* 'No directional prediction'.
C8_InconclusiveIffUndersized ==
  pc = "done" =>
    LET c == completeness.verdict.conclusion
        n == sample.symmetric_count
    IN /\ c \in {Inconclusive, Evidence, NoPrediction}
       /\ (c = Inconclusive) <=> (n < 100)
       /\ n < 100 => c # NoPrediction
       /\ n >= 100 => c \in {Evidence, NoPrediction}

\* (observed - null) / sqrt(null (1 - null) / n) > 1.96 for a subset of n
\* markets with g tilt hits and k cheaper-side wins, in integers:
\* g > k and (g - k)^2 * n > 1.96^2 * k * (n - k)
SignificantCounts(n, g, k) ==
  /\ n > 0 /\ 0 < k /\ k < n
  /\ g > k
  /\ (g - k) * (g - k) * n * 625 > 2401 * k * (n - k)

SampleSignificant ==
  /\ sample.symmetric_count >= 100
  /\ SignificantCounts(sample.symmetric_count, sample.gross_correct, sample.null_correct)

SampleGapMaterial ==
  ~IsNaN(sample.excess_gap) /\ Gt(sample.excess_gap, Rat(1, 100))

\* C8 witness: an undersized subset with a large z and a material excess
\* gap is reported as inconclusive
C8_Witness ==
  /\ pc = "done"
  /\ sample.symmetric_count > 0 /\ sample.symmetric_count < 100
  /\ SignificantCounts(sample.symmetric_count, sample.gross_correct, sample.null_correct)
  /\ SampleGapMaterial
  /\ completeness.verdict.conclusion = Inconclusive

C10_OneTailedZTest ==
  pc = "done" =>
    LET n == sample.symmetric_count
        g == sample.gross_correct
        k == sample.null_correct
        z == completeness.verdict.symmetric_z
        flagged == completeness.verdict.sym_predicts
    IN /\ z.nan <=> (n = 0 \/ k = 0 \/ k = n)
       /\ ~z.nan =>
            /\ z.sign = (IF g > k THEN 1 ELSE IF g < k THEN -1 ELSE 0)
            /\ z.sq = Rat((g - k) * (g - k) * n, k * (n - k))
       /\ (~z.nan /\ g = k) => (z.sign = 0 /\ z.sq = Zero /\ ~flagged)
       /\ flagged <=> (n >= 100 /\ SignificantCounts(n, g, k))
       /\ (z.nan \/ g < k) => ~flagged

\* C10 witness: a subset of at least 100 markets whose tilt accuracy equals
\* a null rate strictly between 0 and 1 has z = 0 and is not flagged
C10_Witness ==
  /\ pc = "done"
  /\ sample.symmetric_count >= 100
  /\ sample.gross_correct = sample.null_correct
  /\ 0 < sample.null_correct /\ sample.null_correct < sample.symmetric_count
  /\ completeness.verdict.symmetric_z = [nan |-> FALSE, sign |-> 0, sq |-> Zero]
  /\ ~completeness.verdict.sym_predicts

\* C11: per-side VWAP = buy cost / buy shares, combined_vwap is their sum,
\* spread = 1 - combined_vwap and guaranteed_profit = matched_pairs * spread,
\* negative only for a negative spread and non-negative otherwise; the
\* market 40/100 Up, 45/100 Down without sells has VWAPs 0.40 and 0.45,
\* combined_vwap 0.85, spread 0.15, balance_ratio 1, matched_pairs 100,
\* unmatched_shares 0 and guaranteed_profit 15.
C11_SpreadArithmetic ==
  Analyzed =>
    \A m \in DOMAIN completeness.per_market_df :
      LET r == completeness.per_market_df[m]
          in == pms[m]
          matched == MinInt(NetOf(in.buy_up_shares, in.sell_up_shares),
                            NetOf(in.buy_down_shares, in.sell_down_shares))
      IN /\ r.vwap_up = Rat(in.buy_up_cost, in.buy_up_shares)
         /\ r.vwap_down = Rat(in.buy_down_cost, in.buy_down_shares)
         /\ r.combined_vwap = Rat(in.buy_up_cost * in.buy_down_shares
                                    + in.buy_down_cost * in.buy_up_shares,
                                  in.buy_up_shares * in.buy_down_shares)
         /\ r.spread = Sub(One, r.combined_vwap)
         /\ r.guaranteed_profit = Mul(Num(matched), r.spread)
         /\ Lt(r.spread, Zero) /\ matched > 0 => Lt(r.guaranteed_profit, Zero)
         /\ Ge(r.spread, Zero) => Ge(r.guaranteed_profit, Zero)
         /\ Lt(r.guaranteed_profit, Zero) => Lt(r.spread, Zero)
         /\ ( /\ in.buy_up_cost = 40 /\ in.buy_up_shares = 100
              /\ in.buy_down_cost = 45 /\ in.buy_down_shares = 100
              /\ in.sell_up_shares = 0 /\ in.sell_down_shares = 0 )
            => /\ r.vwap_up = Rat(40, 100) /\ r.vwap_down = Rat(45, 100)
               /\ r.combined_vwap = Rat(85, 100) /\ r.spread = Rat(15, 100)
               /\ r.balance_ratio = One
               /\ r.matched_pairs = Num(100) /\ r.unmatched_shares = Zero
               /\ r.guaranteed_profit = Num(15)

\* the example market of the specification: 100 shares a side bought for 40
\* and 45 dollars, nothing sold
IsExampleMarket(in) ==
  /\ in.buy_up_cost = 40 /\ in.buy_up_shares = 100
  /\ in.buy_down_cost = 45 /\ in.buy_down_shares = 100
  /\ in.sell_up_shares = 0 /\ in.sell_down_shares = 0

\* C11 witness: the example market has been analysed, with a guaranteed
\* profit of 15
C11_Witness ==
  /\ Analyzed
  /\ \E m \in DOMAIN completeness.per_market_df :
       /\ IsExampleMarket(pms[m])
       /\ completeness.per_market_df[m].guaranteed_profit = Num(15)

StoredFills(c, side, outcome) ==
  { t \in trades : /\ t.activity_type = "TRADE" /\ t.condition_id = c
                   /\ t.side = side /\ t.outcome = outcome }

TradedMarkets == { t.condition_id : t \in {x \in trades : x.activity_type = "TRADE"} }

\* sum of a column over the distinct keys of a set of rows
KeySum(rows, col) ==
  LET keys == {TradeKey(t) : t \in rows}
  IN SumInt(keys, [k \in keys |-> (CHOOSE t \in rows : TradeKey(t) = k)[col]])

\* C13: after any sequence of upsert_trades calls no key (transaction_hash,
\* asset) is stored twice, and per_market_summary has exactly one row per
\* condition_id with a stored TRADE fill and none for another market; in each
\* row cost/proceeds and shares per (side, outcome) are the sums of
\* usdc_value and size over the stored TRADE fills, each key counted once,
\* and buy_fills + sell_fills = total_fills = the number of those fills.
C13_SummaryMatchesStoredFills ==
  /\ \A a, b \in trades : TradeKey(a) = TradeKey(b) => a = b
  /\ Cardinality(trades) <= written
  /\ pc = "summarised" =>
       /\ DOMAIN pms = TradedMarkets
       /\ \A c \in DOMAIN pms :
            LET r == pms[c]
                all == {t \in trades : t.activity_type = "TRADE" /\ t.condition_id = c}
            IN /\ r.buy_up_cost = KeySum(StoredFills(c, "BUY", "Up"), "usdc_value")
               /\ r.buy_up_shares = KeySum(StoredFills(c, "BUY", "Up"), "size")
               /\ r.buy_down_cost = KeySum(StoredFills(c, "BUY", "Down"), "usdc_value")
               /\ r.buy_down_shares = KeySum(StoredFills(c, "BUY", "Down"), "size")
               /\ r.sell_up_proceeds = KeySum(StoredFills(c, "SELL", "Up"), "usdc_value")
               /\ r.sell_up_shares = KeySum(StoredFills(c, "SELL", "Up"), "size")
               /\ r.sell_down_proceeds = KeySum(StoredFills(c, "SELL", "Down"), "usdc_value")
               /\ r.sell_down_shares = KeySum(StoredFills(c, "SELL", "Down"), "size")
               /\ r.buy_fills + r.sell_fills = r.total_fills
               /\ r.total_fills = Cardinality({TradeKey(t) : t \in all})

\* C13 witness: a key was upserted more than once, one market has stored
\* TRADE fills and is summarised, the other has only a maker rebate
C13_Witness ==
  /\ pc = "summarised"
  /\ written > Cardinality(trades)
  /\ DOMAIN pms = {"m1"}
  /\ \E t \in trades : t.condition_id = "m2" /\ t.activity_type = "MAKER_REBATE"

\* the summary row with its SELL fills removed
WithoutSells(in) ==
  [in EXCEPT !.sell_up_shares = 0, !.sell_up_proceeds = 0,
             !.sell_down_shares = 0, !.sell_down_proceeds = 0]

\* the row analyze_completeness derives for market m, both-sided or not
DerivedRow(result, m) ==
  IF m \in DOMAIN result.per_market_df THEN result.per_market_df[m]
  ELSE result.one_sided_df[m]

\* C14: VWAPs are gross: the SELL fills of a market do not enter vwap_up,
\* vwap_down, combined_vwap, spread or the both-sided classification; these
\* are the same as for the market with the same buys and no sells.
C14_SellsLeaveVwapUnchanged ==
  Analyzed =>
    \A m \in DOMAIN pms :
      LET in == pms[m]
          gross == analyze_completeness([x \in {m} |-> WithoutSells(in)], << >>)
          r  == DerivedRow(completeness, m)
          r0 == DerivedRow(gross, m)
      IN /\ in.buy_up_shares + in.buy_down_shares > 0 =>
              /\ r.vwap_up = r0.vwap_up
              /\ r.vwap_down = r0.vwap_down
              /\ r.is_both_sided = r0.is_both_sided
              /\ r.is_both_sided <=> (in.buy_up_shares > 0 /\ in.buy_down_shares > 0)
              /\ r.is_both_sided =>
                   /\ r.combined_vwap = r0.combined_vwap
                   /\ r.spread = r0.spread

\* C14 witness: a both-sided market whose sells change its balance ratio,
\* matched pairs and guaranteed profit but none of its VWAPs or its spread
C14_Witness ==
  /\ Analyzed
  /\ \E m \in DOMAIN completeness.per_market_df :
       LET r == completeness.per_market_df[m]
           r0 == BothRow(WithoutSells(pms[m]))
       IN /\ pms[m].sell_up_shares > 0
          /\ r.balance_ratio # r0.balance_ratio
          /\ r.matched_pairs # r0.matched_pairs
          /\ r.guaranteed_profit # r0.guaranteed_profit
          /\ r.balance_tier # r0.balance_tier
          /\ r.spread = r0.spread

\* C15: for every resolved both-sided market hold_pnl = buy shares on the
\* winning side - total buy cost and sell_discipline_value = trade_pnl -
\* hold_pnl, and this value equals total sell proceeds minus the number of
\* winning-side shares sold; it is 0 for every market without sells.
C15_SellDisciplineValue ==
  pc = "done" =>
    \A m \in DOMAIN pnl.resolved_df :
      LET r == pnl.resolved_df[m]
          in == pms[m]
          up_won == r.winning_outcome = "Up"
          bought == IF up_won THEN in.buy_up_shares ELSE in.buy_down_shares
          sold == IF up_won THEN in.sell_up_shares ELSE in.sell_down_shares
      IN /\ r.hold_pnl = Num(bought - (in.buy_up_cost + in.buy_down_cost))
         /\ r.sell_discipline_value = Sub(r.trade_pnl, r.hold_pnl)
         /\ r.sell_discipline_value =
              Num((in.sell_up_proceeds + in.sell_down_proceeds) - sold)
         /\ (in.sell_up_shares = 0 /\ in.sell_down_shares = 0)
              => r.sell_discipline_value = Zero

\* the fills that name a counterparty
NamedFills == {f \in onchain : f.counterparty # ""}

C16_WitnessEmptySource ==
  /\ pc = "phase8_done"
  /\ onchain = {}
  /\ ~phase8.maker_taker.result.available
  /\ ~phase8.counterparties.result.available

\* C17 (as claimed): recomputing the completeness model from the same
\* per-market summary and the same positions table yields the same
\* per-market and resolved rows as the run before, and a run leaves the
\* summary it was given unchanged.
C17_RecomputationIdentical ==
  [][ /\ (AnalyzeCompleteness \/ RecomputeCompleteness) => pms' = pms
      /\ RecomputeCompleteness =>
           /\ completeness'.per_market_df = completeness.per_market_df
           /\ completeness'.resolved_df = completeness.resolved_df ]_vars

\* the part of C17 that holds: the per-market rows are recomputed identically
\* and the summary is left unchanged
C17_PerMarketRowsIdentical ==
  [][ /\ (AnalyzeCompleteness \/ RecomputeCompleteness) => pms' = pms
      /\ RecomputeCompleteness =>
           completeness'.per_market_df = completeness.per_market_df ]_vars

\* the resolved rows are recomputed identically when the resolving rows of
\* every market agree
C17_AgreeingRowsIdentical ==
  [][ (RecomputeCompleteness /\ \A m \in DOMAIN pms : RowsAgree(m)) =>
         completeness'.resolved_df = completeness.resolved_df ]_vars

\* the input and the returned summary of analyze_risk
RiskReturned == pc = "risk_done" /\ risk.result.raised = ""

\* the length of the longest block of consecutive rows of order whose
\* markets are all in S (0 when there is none)
LongestRun(order, S) ==
  LET n == Len(order)
      blocks == {b \in (1..n) \X (1..n) :
                   b[1] <= b[2] /\ \A k \in b[1]..b[2] : order[k] \in S}
  IN IF blocks = {} THEN 0
     ELSE LET b == CHOOSE x \in blocks : \A y \in blocks : y[2] - y[1] <= x[2] - x[1]
          IN b[2] - b[1] + 1

\* C18: for some order of the resolved markets by non-decreasing
\* first_fill_ts, max_loss_streak is the longest run of consecutive markets
\* with trade_pnl <= 0 and max_win_streak the longest run with trade_pnl > 0
\* (so a P&L of exactly 0 extends a loss streak and ends a win streak); both
\* lie between 0 and the number of resolved markets, and with at least one
\* market one of them is at least 1.
C18_StreaksAreLongestRuns ==
  RiskReturned =>
    LET resolved == risk.pnl_result.resolved_df
        n == Cardinality(DOMAIN resolved)
        losers == {m \in DOMAIN resolved : resolved[m].trade_pnl.n <= 0}
        winners == {m \in DOMAIN resolved : resolved[m].trade_pnl.n > 0}
        s == risk.result.summary
    IN /\ \E order \in [1..n -> DOMAIN resolved] :
            /\ \A i, j \in 1..n : i < j =>
                 /\ order[i] # order[j]
                 /\ resolved[order[i]].first_fill_ts <= resolved[order[j]].first_fill_ts
            /\ s.max_loss_streak = LongestRun(order, losers)
            /\ s.max_win_streak = LongestRun(order, winners)
       /\ s.max_loss_streak \in 0..n
       /\ s.max_win_streak \in 0..n
       /\ n >= 1 => (s.max_loss_streak >= 1 \/ s.max_win_streak >= 1)

\* C18 witness: three markets at distinct and equal times, one with P&L 0
\* that extends a loss streak of two, and a win streak of one
C18_Witness ==
  /\ RiskReturned
  /\ Cardinality(DOMAIN risk.pnl_result.resolved_df) = 3
  /\ \E m \in DOMAIN risk.pnl_result.resolved_df :
       risk.pnl_result.resolved_df[m].trade_pnl = Zero
  /\ \E m \in DOMAIN risk.pnl_result.resolved_df :
       risk.pnl_result.resolved_df[m].trade_pnl = Num(-1)
  /\ risk.result.summary.max_loss_streak = 2
  /\ risk.result.summary.max_win_streak = 1

\* C19: max drawdown is the least value of cumulative[j] - cumulative[i]
\* over days i <= j (the minimum over j of cumulative[j] minus the running
\* maximum), is never positive, and is 0 exactly when the cumulative series
\* never falls below an earlier value; Calmar is total P&L * 365 / trading
\* days divided by |max drawdown|, and infinity when the drawdown is 0.
C19_MaxDrawdownAndCalmar ==
  RiskReturned =>
    LET daily == risk.pnl_result.daily_pnl
        n == Len(daily)
        s == risk.result.summary
        Decline(i, j) == Sub(daily[j].cumulative_pnl, daily[i].cumulative_pnl)
        annualized == Mul(daily[n].cumulative_pnl, Rat(365, n))
    IN /\ \A j \in 1..n :
            daily[j].cumulative_pnl =
              Add(IF j = 1 THEN Zero ELSE daily[j - 1].cumulative_pnl, daily[j].pnl)
       /\ \E j \in 1..n : \E i \in 1..j : s.max_drawdown = Decline(i, j)
       /\ \A j \in 1..n : \A i \in 1..j : Le(s.max_drawdown, Decline(i, j))
       /\ Le(s.max_drawdown, Zero)
       /\ s.max_drawdown = Zero <=>
            \A j \in 1..n : \A i \in 1..j : Ge(daily[j].cumulative_pnl, daily[i].cumulative_pnl)
       /\ IF s.max_drawdown = Zero
          THEN s.calmar = [nan |-> FALSE, n |-> 1, d |-> 0]
          ELSE /\ s.calmar.d # 0
               /\ Mul(s.calmar, AbsQ(s.max_drawdown)) = annualized

\* C19 witness: three trading days with a decline from a positive peak, so
\* the drawdown is negative and Calmar finite
C19_Witness ==
  /\ RiskReturned
  /\ Len(risk.pnl_result.daily_pnl) = 3
  /\ Lt(risk.result.summary.max_drawdown, Zero)
  /\ Gt(risk.pnl_result.daily_pnl[1].cumulative_pnl, Zero)
  /\ Gt(risk.result.summary.calmar, Zero)

\* C19 witness of a series that starts with a loss and never declines after
\* it: the drawdown is 0 and Calmar infinite
C19_WitnessNoDrawdown ==
  /\ RiskReturned
  /\ Len(risk.pnl_result.daily_pnl) >= 2
  /\ Lt(risk.pnl_result.daily_pnl[1].cumulative_pnl, Zero)
  /\ risk.result.summary.max_drawdown = Zero
  /\ risk.result.summary.calmar = [nan |-> FALSE, n |-> 1, d |-> 0]

\* the records of the endpoint that are stored in the trades table
Stored == {k \in 1..Len(server) : \E t \in trades : t = ParseTrade(server[k])}

\* the number of records one window can reach
WindowCapacity == PAGE_SIZE + MAX_OFFSET

\* C20 (as claimed): when collect_trades returns, every record the endpoint
\* holds has been upserted into the trades table, whatever the distribution
\* of timestamps.
C20_AllTradesCollected ==
  pc = "collected" => Stored = 1..Len(server)

\* what holds of collect_trades: nothing is stored that the endpoint does not
\* hold, the count returned is the number of rows stored, and every record is
\* stored when fewer records than a window reaches share any one timestamp
C20_CollectedWhenTimestampsSparse ==
  pc = "collected" =>
    /\ \A t \in trades : \E k \in 1..Len(server) : t = ParseTrade(server[k])
    /\ collector.total_collected = Cardinality(trades)
    /\ (\A ts \in 1..MaxTimestamp :
          Cardinality({k \in 1..Len(server) : server[k].timestamp = ts}) < WindowCapacity)
         => Stored = 1..Len(server)

\* the keys of the rows stored in the trades table
StoredKeys == {TradeKey(t) : t \in trades}

\* C21: when collect_trades returns, the count returned is the number of
\* distinct (transactionHash, asset) keys seen, every record seen was handed
\* to upsert_trades exactly once over the periodic and the final flushes
\* (the rows handed over are as many as the keys seen, and every key seen is
\* stored), and the buffer is empty; before that, the records seen are the
\* ones flushed plus the ones buffered.
C21_CountedAndUpsertedOnce ==
  /\ pc \in {"fetch", "flush", "collected"} =>
       /\ written + Len(collector.buffer) = Cardinality(collector.seen)
       /\ collector.total_collected = written
       /\ StoredKeys \cup {TradeKey(collector.buffer[i]) : i \in 1..Len(collector.buffer)}
            = collector.seen
  /\ pc = "collected" =>
       /\ collector.total_collected = Cardinality(collector.seen)
       /\ written = Cardinality(collector.seen)
       /\ StoredKeys = collector.seen
       /\ collector.buffer = << >>

\* C21 witness: a run of at least two overlapping windows with a periodic
\* flush and a final flush of a remainder
C21_Witness ==
  /\ pc = "collected"
  /\ collector.window_num >= 2
  /\ Cardinality(collector.seen) > FLUSH_EVERY
  /\ Cardinality(collector.seen) % FLUSH_EVERY # 0
  /\ \E k \in 1..Len(server) :
       server[k].timestamp = collector.window_end_ts[1]

\* every window but the first follows a window that collected a record not
\* seen before, so there are never more windows than records seen plus one
WindowsProgress ==
  pc \in {"fetch", "flush", "collected"} =>
    /\ collector.window_num <= Cardinality(collector.seen) + 1
    /\ Cardinality(collector.seen) <= Len(server)
    /\ collector.window_end_ts # None =>
         \E k \in 1..Len(server) :
           /\ server[k].timestamp = collector.window_end_ts[1]
           /\ << server[k].transactionHash, server[k].asset >> \in collector.seen

\* C22: collect_trades returns for every finite dataset and every pattern
\* of responses (full, short and empty pages, error payloads): a window
\* either collects a record not seen before or ends the collection.
C22_Terminates == []WindowsProgress /\ <>(pc = "collected")

\* C22 witness: a run that returned after an error payload ended its second
\* or later window
C22_Witness ==
  /\ pc = "collected"
  /\ collector.window_num >= 2
  /\ ~collector.data.is_list

\* the call of RateLimitedClient.get in progress or last finished
GetCall == client.call.kind = "get" /\ client.calls > 0

\* C23: get makes at most MAX_RETRIES attempts a call; it returns the first
\* response with status 200; after a 429, a 500/502/503/504 or a connection
\* error it waits BACKOFF_BASE * BACKOFF_FACTOR^attempt (1, 2, 4, 8, 16) and
\* goes on; any other error status is raised at once, without a wait or a
\* further attempt; and after MAX_RETRIES failed attempts it raises the last
\* exception, a RuntimeError if only 429s were seen, and returns no value.
C23_RetriesAndBackoff ==
  /\ [](GetCall =>
         LET c == client.call
         IN /\ c.requests <= MAX_RETRIES
            /\ c.slept = [i \in 1..Len(c.slept) |-> 2 ^ (i - 1)]
            /\ c.outcome = "running" => Len(c.slept) = c.requests /\ c.requests < MAX_RETRIES
            /\ (c.outcome = "returned" /\ c.requests > 0) =>
                 c.status = 200 /\ Len(c.slept) = c.requests - 1
            /\ c.outcome = "raised" =>
                 /\ c.value = PyNone
                 /\ IF c.status \in {0, 429, 500, 502, 503, 504}
                    THEN /\ c.requests = MAX_RETRIES
                         /\ c.slept = << 1, 2, 4, 8, 16 >>
                         /\ c.exception = IF c.last_exception = << "None", 0 >>
                                          THEN << "RuntimeError", 0 >> ELSE c.last_exception
                    ELSE /\ c.exception = << "HTTPError", c.status >>
                         /\ Len(c.slept) = c.requests - 1)
  /\ [][ (pc = "get" /\ client'.call.kind = "get") =>
           LET st == client'.call.status
           IN /\ (st \in {500, 502, 503, 504}) =>
                   client'.call.last_exception = << "HTTPError", st >>
              /\ st = 0 => client'.call.last_exception = << "ConnectionError", 0 >>
              /\ st \in {200, 429, 404} =>
                   client'.call.last_exception = client.call.last_exception
              /\ st # 200 => client'.call.outcome # "returned" ]_vars

\* C23 witness: five attempts all answered 429, the waits 1, 2, 4, 8, 16 and
\* a RuntimeError
C23_Witness ==
  /\ GetCall
  /\ client.call.outcome = "raised"
  /\ client.call.requests = 5
  /\ client.call.slept = << 1, 2, 4, 8, 16 >>
  /\ client.call.exception = << "RuntimeError", 0 >>

\* C23 witness of a success on the third attempt after a 503 and a 429
C23_WitnessReturned ==
  /\ GetCall
  /\ client.call.outcome = "returned"
  /\ client.call.requests = 3
  /\ client.call.last_exception = << "HTTPError", 503 >>
  /\ client.call.value = "[a]"

\* C24 (as claimed): the HTTP requests sent never outnumber the tokens taken
\* from the bucket.
C24_RequestsPaidByTokens ==
  client.requests_sent <= client.tokens_taken

\* what holds of the token accounting: every attempt of PolygonRPC.call
\* takes a token, and a call of get takes one token however many attempts
\* it makes
C24_TokenPerRpcAttempt ==
  client.calls > 0 =>
    /\ client.call.kind = "call" => client.call.tokens = client.call.requests
    /\ client.call.kind = "get" =>
         client.call.tokens = IF client.call.requests > 0 \/ pc = "get" THEN 1 ELSE 0
    /\ client.tokens_taken <= client.requests_sent + client.calls

\* the call of get was entered with the cache in use
CacheInUse == GetCall /\ client.use_cache /\ ~client.call.skip_cache

\* C25 (as claimed): with the cache in use a request whose key is cached
\* returns the cached value without a request and without a token; the
\* cache changes only by the write of a response received; with skip_cache
\* or caching disabled the cache is neither read nor written; a failed
\* request never changes the cache.
C25_CacheHitsAndWrites ==
  GetCall =>
    LET c == client.call
    IN /\ (CacheInUse /\ c.key \in DOMAIN c.cache_before) =>
            /\ c.outcome = "returned"
            /\ c.value = c.cache_before[c.key]
            /\ c.requests = 0 /\ c.tokens = 0
       /\ client.cache # c.cache_before =>
            /\ CacheInUse /\ c.outcome = "returned" /\ c.requests >= 1
       /\ (c.outcome = "returned" /\ c.requests >= 1 /\ CacheInUse) =>
            /\ c.key \in DOMAIN client.cache
            /\ client.cache[c.key] = c.value
            /\ \A k \in DOMAIN client.cache \ {c.key} :
                 k \in DOMAIN c.cache_before /\ client.cache[k] = c.cache_before[k]
       /\ ~CacheInUse =>
            /\ client.cache = c.cache_before
            /\ c.outcome = "returned" => c.requests >= 1 /\ c.status = 200
       /\ c.outcome # "returned" => client.cache = c.cache_before

\* what holds of the cache: the same, for a key cached with a value other
\* than JSON null; a cached null is read as a miss and fetched again
C25_CacheHitsUnlessNull ==
  GetCall =>
    LET c == client.call
    IN /\ (CacheInUse /\ c.key \in DOMAIN c.cache_before
             /\ c.cache_before[c.key] # "None") =>
            /\ c.outcome = "returned"
            /\ c.value = c.cache_before[c.key]
            /\ c.requests = 0 /\ c.tokens = 0
       /\ client.cache # c.cache_before =>
            /\ CacheInUse /\ c.outcome = "returned" /\ c.requests >= 1
       /\ ~CacheInUse => client.cache = c.cache_before
       /\ c.outcome # "returned" => client.cache = c.cache_before

\* the first block at or after the target and the last at or before it,
\* among the blocks between the initial bounds
SearchRange == collector.lo0..collector.hi0

FirstBlockFrom(target_ts) ==
  CHOOSE b \in SearchRange :
    server[b] >= target_ts /\ \A a \in SearchRange : server[a] >= target_ts => b <= a

LastBlockUpTo(target_ts) ==
  CHOOSE b \in SearchRange :
    server[b] <= target_ts /\ \A a \in SearchRange : server[a] <= target_ts => a <= b

\* C26 (as claimed): for non-decreasing block timestamps and a target
\* between the timestamps of the initial bounds, the search returns the
\* first block with timestamp >= target_ts when search_low, the last block
\* with timestamp <= target_ts otherwise, within 50 iterations.
C26_FirstAndLastBlock ==
  pc = "found" =>
    /\ collector.iterations <= 50
    /\ collector.result =
         IF collector.search_low THEN FirstBlockFrom(collector.target_ts)
         ELSE LastBlockUpTo(collector.target_ts)

\* what holds of the search: it ends within 50 iterations inside the
\* initial bounds, and it returns a block with the target's timestamp, or
\* else a block before the target when search_low and a block after it
\* otherwise, so that no block with a timestamp strictly inside the range
\* of the two results is left out
C26_ResultBracketsTarget ==
  pc = "found" =>
    LET r == collector.result
        t == collector.target_ts
    IN /\ collector.iterations <= 50
       /\ r \in collector.lo0..collector.hi0
       /\ \/ server[r] = t
          \/ /\ collector.search_low
             /\ server[r] < t
             /\ server[r + 1] >= t
          \/ /\ ~collector.search_low
             /\ server[r] > t
             /\ server[r - 1] <= t

\* the requests the node answered with logs, as positions in the request list
Answered == {i \in DOMAIN collector.requests : collector.requests[i].answered}

BlocksOf(i) == collector.requests[i].fromBlock..collector.requests[i].toBlock

RECURSIVE Flatten(_)
Flatten(lists) == IF lists = << >> THEN << >> ELSE Head(lists) \o Flatten(Tail(lists))

Upserted == Flatten(collector.upserts)

DecodedFills ==
  {f \in [transaction_hash : TxHashes, log_index : 0..MaxLogs, bot_role : {"maker", "taker"}] :
     \E i \in DOMAIN (collector.fills1 \o collector.fills2 \o collector.fills3) :
       (collector.fills1 \o collector.fills2 \o collector.fills3)[i] = f}

OnchainPhases ==
  {"collect_onchain", "verified", "pass1", "pass2", "pass3", "final_flush",
   "onchain_collected", "raised"}

\* C28: collect_onchain deduplicates across its passes by (transaction_hash,
\* log_index): no key is handed to upsert_onchain_fills twice or is both
\* handed over and still buffered, every decoded fill is either handed over
\* or in the buffer, and after the final flush every decoded fill has been
\* handed over exactly once; receipts are fetched only for the transactions
\* of pass 3 that passes 1-2 do not cover; and with fills already in the
\* database no RPC call is made and nothing is upserted.
C28_EachFillUpsertedOnce ==
  pc \in OnchainPhases =>
    /\ \A i, j \in DOMAIN Upserted : i # j => FillKey(Upserted[i]) # FillKey(Upserted[j])
    /\ \A i \in DOMAIN Upserted, j \in DOMAIN collector.all_fills :
         FillKey(Upserted[i]) # FillKey(collector.all_fills[j])
    /\ DecodedFills = {Upserted[i] : i \in DOMAIN Upserted}
                        \cup {collector.all_fills[j] : j \in DOMAIN collector.all_fills}
    /\ pc = "onchain_collected" => collector.all_fills = << >>
    /\ \A i \in DOMAIN collector.receipts :
         /\ collector.receipts[i] \in collector.logs3
         /\ collector.receipts[i] \notin TxsOf(collector.fills1 \o collector.fills2)
    /\ onchain # {} => collector.rpc_calls = 0 /\ collector.upserts = << >>

\* a finished collection with a threshold flush and a final flush, a fill
\* returned by both pass 1 and pass 2, and a receipt fetched in pass 3
C28_Witness ==
  /\ pc = "onchain_collected"
  /\ Len(collector.upserts) >= 2
  /\ TxsOf(collector.fills1) \cap TxsOf(collector.fills2) # {}
  /\ \E i \in DOMAIN collector.fills1, j \in DOMAIN collector.fills2 :
       FillKey(collector.fills1[i]) = FillKey(collector.fills2[j])
  /\ collector.fills3 # << >>

\* fills already in the database: verification only
C28_WitnessExisting ==
  /\ pc = "verified"
  /\ onchain # {}

CounterpartiesRan == "counterparties" \in DOMAIN phase8

RealCounterparties == {f.counterparty : f \in NamedFills} \ ExchangeContracts

Defined(concentration) ==
  \A metric \in {"hhi", "hhi_normalized", "gini", "top1_share", "top10_share", "top50_share"} :
    ~IsNaN(concentration[metric])

\* C29 (as claimed): analyze_counterparties never raises on a degraded
\* counterparty table: for every table of counterparty_summary, one whose
\* only rows are exchange contracts included, it returns 'available': False,
\* or 'available': True with defined HHI, Gini and top-N shares.
C29_NeverRaisesOnDegradedTable ==
  CounterpartiesRan =>
    /\ phase8.counterparties.raised = ""
    /\ phase8.counterparties.result.available =>
         Defined(phase8.counterparties.result.concentration)

\* what holds: the analysis raises exactly when fills name counterparties
\* and every one named is an exchange contract; with a real counterparty it
\* is available, its metrics are defined and count the real counterparties
\* only, and a single real counterparty has HHI 1, Gini 0 and every top-N
\* share 100
C29_DefinedWithRealCounterparty ==
  CounterpartiesRan =>
    LET r == phase8.counterparties
    IN /\ r.raised = IndexError <=> (NamedFills # {} /\ RealCounterparties = {})
       /\ RealCounterparties # {} =>
            /\ r.result.available
            /\ Defined(r.result.concentration)
            /\ r.result.summary.n_counterparties = Cardinality(RealCounterparties)
            /\ r.result.summary.total_fills
                 = Cardinality({f \in NamedFills : f.counterparty \in RealCounterparties})
            /\ EqQ(r.result.concentration.top50_share, Num(100))
            /\ Cardinality(RealCounterparties) = 1 =>
                 /\ EqQ(r.result.concentration.hhi, One)
                 /\ EqQ(r.result.concentration.hhi_normalized, One)
                 /\ EqQ(r.result.concentration.gini, Zero)
                 /\ EqQ(r.result.concentration.top1_share, Num(100))

====
